---- MODULE Spec2Model ----
(***************************************************************************)
(* Model of re_space_view_waveform: the sample store queried by            *)
(* WaveformSystem::load_points, the series / events it aggregates, and the *)
(* per-frame state of WaveformSpaceView::ui (selected mode, series filter, *)
(* cursor lookup).                                                         *)
(***************************************************************************)
EXTENDS Integers, Sequences, FiniteSets, TLC

VARIABLES
    store,                    \* the host's sample store (what was logged)
    all_series,               \* WaveformSystem.all_series
    all_events,               \* WaveformSystem.all_events.event_markers
    exec_result,              \* outcome of the last load_points / execute
    selected_mode,            \* WaveformSpaceViewState.selected_mode
    domain_index,             \* WaveformSpaceViewState.domain_index
    last_frame_sample_count,  \* WaveformSpaceViewState.last_frame_sample_count
    frame,                    \* inputs and outputs of the last ui pass
    time_origin               \* the day the store's times are counted from

vars == <<store, all_series, all_events, exec_result, selected_mode, domain_index,
          last_frame_sample_count, frame, time_origin>>

(***************************************************************************)
(* Bounds of the model.                                                    *)
(***************************************************************************)
\* Largest number of entries logged to the store.
MaxLog == 3

(***************************************************************************)
(* Option<T>: None is the empty sequence, Some(x) the one-element one.     *)
(***************************************************************************)
None == << >>

Some(x) == << x >>

IsSome(o) == o # None

Unwrap(o) == o[1]

MinOf(a, b) == IF a <= b THEN a ELSE b

MaxOf(a, b) == IF a >= b THEN a ELSE b

(***************************************************************************)
(* f64 values are integers here, and NaN is one more value, written as an  *)
(* integer no logged number takes.  Every comparison of two f64 goes       *)
(* through the operators below; computed values are rationals, with a NaN  *)
(* of their own that every arithmetic operation propagates.                *)
(***************************************************************************)
NaN == -1

\* f64::min: NaN is ignored unless both are NaN
FMin(a, b) == IF a = NaN THEN b ELSE IF b = NaN THEN a ELSE MinOf(a, b)

\* f64::max: NaN is ignored unless both are NaN
FMax(a, b) == IF a = NaN THEN b ELSE IF b = NaN THEN a ELSE MaxOf(a, b)

\* x < y on f64: false when either is NaN
FLt(x, y) == x # NaN /\ y # NaN /\ x < y

\* x == y on f64: false when either is NaN
FEq(x, y) == x # NaN /\ y # NaN /\ x = y

\* BTreeMap::insert: the value of an existing key is replaced.
MapInsert(m, k, v) == [x \in (DOMAIN m) \cup {k} |-> IF x = k THEN v ELSE m[x]]

EmptyMap == [x \in {} |-> 0]

(***************************************************************************)
(* Entities.  An entity path is the sequence of its parts; the domain is   *)
(* the first part.                                                         *)
(***************************************************************************)
y1 == <<"A", "y1">>

y2 == <<"A", "y2">>

d1 == <<"D", "d1">>

\* query.iter_visible_data_results: the visible entities, in iteration order.
VisibleEntities == <<y1, d1, y2>>

Entities == {VisibleEntities[i] : i \in 1..Len(VisibleEntities)}

\* entity_path.iter().next()
DomainOf(entity_path) == IF Len(entity_path) = 0 THEN None ELSE Some(entity_path[1])

(***************************************************************************)
(* Annotation Resolver.  An annotation context is logged on an entity and  *)
(* describes classes 0 and 1; class id 2 is described nowhere.  The        *)
(* resolver holds the contexts by the exact path of the entity they were   *)
(* logged on.                                                              *)
(***************************************************************************)
AnnotationTable ==
    [c \in {0, 1} |-> IF c = 0 THEN [id |-> 0, label |-> Some("OFF"), color |-> None]
                               ELSE [id |-> 1, label |-> Some("ON"), color |-> Some("red")]]

ClassIds == {0, 1, 2}

\* resolved_class_description(class_id).annotation_info(): the info of a class
\* the context describes
resolved_class_description(annotations, class_id) ==
    IF class_id \in DOMAIN annotations THEN Some(annotations[class_id]) ELSE None

\* self.0.0.get(entity_path).map(..): nothing for an entity without a context of
\* its own, else the annotation_info of the class
get_annotation(self, entity_path, class_id) ==
    IF entity_path \in DOMAIN self
    THEN resolved_class_description(self[entity_path], class_id)
    ELSE None

\* annotation_info.color, or the automatic colour of the class id
annotation_info_color(annotation_info) ==
    IF IsSome(annotation_info.color) THEN Unwrap(annotation_info.color)
    ELSE <<"auto", annotation_info.id>>

(***************************************************************************)
(* The sample store: per entity and component kind, the logged entries     *)
(* (time, value-bag) in ascending time order (insertion order within one   *)
(* time), and the annotation contexts logged on the entity (static).       *)
(***************************************************************************)
Kinds == {"Scalar", "DiscreteState", "DiscreteStateInit", "DiscreteStateNormal", "Event"}

StoreKinds == Kinds \cup {"AnnotationContext"}

EmptyStore == [e \in Entities |-> [k \in StoreKinds |-> << >>]]

\* rec.log_static(path, &AnnotationContext {..}) for every path of contexts
RegisteredStore(contexts) ==
    [e \in Entities |->
        [k \in StoreKinds |->
            IF k = "AnnotationContext" /\ e \in contexts
            THEN << [time |-> 0, data |-> AnnotationTable] >>
            ELSE << >>]]

\* AnnotationWaveformContext::execute: self.0.load(..) keeps, for every entity
\* that has one, the latest annotation context logged on it
AnnotationMapLoad(st) ==
    [e \in {x \in Entities : st[x]["AnnotationContext"] # << >>} |->
        st[e]["AnnotationContext"][Len(st[e]["AnnotationContext"])].data]

RECURSIVE InsertSorted(_, _)
InsertSorted(entries, en) ==
    IF entries = << >> THEN << en >>
    ELSE IF Head(entries).time <= en.time
         THEN << Head(entries) >> \o InsertSorted(Tail(entries), en)
         ELSE << en >> \o entries

EntitySize(st, e) ==
    Len(st[e]["Scalar"]) + Len(st[e]["DiscreteState"]) + Len(st[e]["DiscreteStateInit"])
        + Len(st[e]["DiscreteStateNormal"]) + Len(st[e]["Event"])

RECURSIVE CountEntries(_, _)
CountEntries(st, i) ==
    IF i > Len(VisibleEntities) THEN 0
    ELSE EntitySize(st, VisibleEntities[i]) + CountEntries(st, i + 1)

\* Number of entries logged so far.
StoreSize(st) == CountEntries(st, 1)

(***************************************************************************)
(* The adapter's answer to one query of one pass:                          *)
(* Option<Result<RangeData>>.  A fault is the query of one (entity, kind)  *)
(* failing with a QueryError in this pass.  A component with no logged     *)
(* entry is reported either as None or as an empty Ok result, as the host  *)
(* decides (dense).                                                        *)
(***************************************************************************)
QueryErrors == {"PrimaryNotFound", "Other"}

NoFault == [entity |-> None, kind |-> "", err |-> ""]

\* context_systems.get::<AnnotationWaveformContext>() failing, mapped to BadAccess
ContextFault == [entity |-> None, kind |-> "AnnotationWaveformContext", err |-> "BadAccess"]

Faults == {[entity |-> Some(e), kind |-> k, err |-> q] :
              e \in Entities, k \in Kinds, q \in QueryErrors} \cup {ContextFault}

get_required_component_dense(st, entity_path, kind, fault, dense) ==
    IF fault.entity = Some(entity_path) /\ fault.kind = kind
    THEN [tag |-> "Err", err |-> fault.err, entries |-> << >>]
    ELSE IF st[entity_path][kind] = << >> /\ ~dense
         THEN [tag |-> "None", err |-> "", entries |-> << >>]
         ELSE [tag |-> "Ok", err |-> "", entries |-> st[entity_path][kind]]

(***************************************************************************)
(* WaveformSystem::load_points, one entity at a time.                      *)
(***************************************************************************)
\* a min_time that follows the last time it was given
UpdMin_Last(min_time, time) == Some(time)

\* min_time.map(|t| t.min(time)).or(Some(time))
UpdMin(min_time, time) ==
    IF IsSome(min_time) THEN Some(MinOf(Unwrap(min_time), time)) ELSE Some(time)

\* a max_time that keeps the first time it was given
UpdMax_First(max_time, time) ==
    IF IsSome(max_time) THEN max_time ELSE Some(time)

\* max_time.map(|t| t.max(time)).or(Some(time))
UpdMax(max_time, time) ==
    IF IsSome(max_time) THEN Some(MaxOf(Unwrap(max_time), time)) ELSE Some(time)

\* the running (min, max) of the scalar values seen by the filter_map
UpdYRange(y_range, value) ==
    IF IsSome(y_range)
    THEN Some(<<FMin(Unwrap(y_range)[1], value), FMax(Unwrap(y_range)[2], value)>>)
    ELSE Some(<<value, value>>)

\* an analog ingestion that takes the first value of a multi-valued entry
RECURSIVE AnalogIngest_FirstValue(_, _, _)
AnalogIngest_FirstValue(entries, i, acc) ==
    IF i > Len(entries) THEN acc
    ELSE IF Len(entries[i].data) = 0 THEN AnalogIngest_FirstValue(entries, i + 1, acc)
    ELSE AnalogIngest_FirstValue(entries, i + 1,
             [points   |-> MapInsert(acc.points, entries[i].time, [value |-> entries[i].data[1]]),
              y_range  |-> UpdYRange(acc.y_range, entries[i].data[1]),
              min_time |-> UpdMin(acc.min_time, entries[i].time),
              max_time |-> UpdMax(acc.max_time, entries[i].time)])

\* Analog ingestion: acc = [points, y_range, min_time, max_time].
RECURSIVE AnalogIngest(_, _, _)
AnalogIngest(entries, i, acc) ==
    IF i > Len(entries) THEN acc
    ELSE LET data == entries[i].data
             time == entries[i].time
         IN IF Len(data) > 1 THEN AnalogIngest(entries, i + 1, acc)
            ELSE IF Len(data) = 0 THEN AnalogIngest(entries, i + 1, acc)
            ELSE AnalogIngest(entries, i + 1,
                     [points   |-> MapInsert(acc.points, time, [value |-> data[1]]),
                      y_range  |-> UpdYRange(acc.y_range, data[1]),
                      min_time |-> UpdMin(acc.min_time, time),
                      max_time |-> UpdMax(acc.max_time, time)])

\* The single-valued entries of a stream, as a sequence of their values.
RECURSIVE SingleValues(_, _)
SingleValues(entries, i) ==
    IF i > Len(entries) THEN << >>
    ELSE IF Len(entries[i].data) > 1 \/ Len(entries[i].data) = 0
         THEN SingleValues(entries, i + 1)
         ELSE << entries[i].data[1] >> \o SingleValues(entries, i + 1)

\* all_discretes_normal.get(0).cloned()
DiscreteNormal(entries) ==
    LET all_discretes_normal == SingleValues(entries, 1)
    IN IF Len(all_discretes_normal) > 0 THEN Some(all_discretes_normal[1]) ELSE None

\* Line when the class id is the normal class id, Box otherwise.
KindOf(class_id, discrete_normal) ==
    IF Some(class_id) = discrete_normal THEN "Line" ELSE "Box"

MakeTransition(annotation_info, class_id, discrete_normal) ==
    [label |-> annotation_info.label,
     color |-> annotation_info_color(annotation_info),
     kind  |-> KindOf(class_id, discrete_normal)]

\* Discrete ingestion: acc = [transitions, min_time, max_time].
RECURSIVE DiscreteIngest(_, _, _, _, _, _)
DiscreteIngest(annotation_map, entries, i, entity_path, discrete_normal, acc) ==
    IF i > Len(entries) THEN acc
    ELSE LET data == entries[i].data
             time == entries[i].time
         IN IF Len(data) > 1 \/ Len(data) = 0
            THEN DiscreteIngest(annotation_map, entries, i + 1, entity_path, discrete_normal, acc)
            ELSE LET info == get_annotation(annotation_map, entity_path, data[1])
                     tr == IF IsSome(info)
                           THEN MapInsert(acc.transitions, time,
                                    MakeTransition(Unwrap(info), data[1], discrete_normal))
                           ELSE acc.transitions
                 IN DiscreteIngest(annotation_map, entries, i + 1, entity_path, discrete_normal,
                        [transitions |-> tr,
                         min_time    |-> UpdMin(acc.min_time, time),
                         max_time    |-> UpdMax(acc.max_time, time)])

\* The init transition: the first single-valued entry of the init stream, if it resolves.
DiscreteInit(annotation_map, entries, entity_path, discrete_normal) ==
    LET singles == SingleValues(entries, 1)
    IN IF Len(singles) = 0 THEN None
       ELSE LET info == get_annotation(annotation_map, entity_path, singles[1])
            IN IF IsSome(info)
               THEN Some(MakeTransition(Unwrap(info), singles[1], discrete_normal))
               ELSE None

\* push that replaces the markers already at the timestamp
EventsPush_Overwrite(event_markers, time, event_marker) ==
    MapInsert(event_markers, time, << event_marker >>)

\* WaveformEvents::push
EventsPush(event_markers, time, event_marker) ==
    IF time \in DOMAIN event_markers
    THEN [event_markers EXCEPT ![time] = Append(@, event_marker)]
    ELSE MapInsert(event_markers, time, << event_marker >>)

\* for Event(class_id) in data.iter(): one marker per class id that resolves
RECURSIVE EventBag(_, _, _, _, _, _)
EventBag(annotation_map, data, j, entity_path, time, event_markers) ==
    IF j > Len(data) THEN event_markers
    ELSE LET info == get_annotation(annotation_map, entity_path, data[j])
         IN EventBag(annotation_map, data, j + 1, entity_path, time,
                IF IsSome(info)
                THEN EventsPush(event_markers, time,
                         [entity_path |-> entity_path,
                          label       |-> Unwrap(info).label,
                          color       |-> annotation_info_color(Unwrap(info))])
                ELSE event_markers)

\* Event ingestion: acc = [event_markers, min_time, max_time].
RECURSIVE EventIngest(_, _, _, _, _)
EventIngest(annotation_map, entries, i, entity_path, acc) ==
    IF i > Len(entries) THEN acc
    ELSE LET data == entries[i].data
             time == entries[i].time
         IN IF Len(data) # 0
            THEN EventIngest(annotation_map, entries, i + 1, entity_path,
                     [event_markers |-> EventBag(annotation_map, data, 1, entity_path, time,
                                                 acc.event_markers),
                      min_time      |-> UpdMin(acc.min_time, time),
                      max_time      |-> UpdMax(acc.max_time, time)])
            ELSE EventIngest(annotation_map, entries, i + 1, entity_path, acc)

\* series.analog_points after the analog block, with the time bounds so far
AnalogPass(scalars) ==
    IF scalars.tag = "Ok"
    THEN AnalogIngest(scalars.entries, 1,
             [points |-> EmptyMap, y_range |-> None, min_time |-> None, max_time |-> None])
    ELSE [points |-> EmptyMap, y_range |-> None, min_time |-> None, max_time |-> None]

\* if let (Some(all_discretes), Some(all_discretes_init), Some(all_discretes_normal))
DiscreteBlock(states, inits, normals) ==
    states.tag # "None" /\ inits.tag # "None" /\ normals.tag # "None"

\* series.discrete_points.transitions after the discrete block, with the time bounds so far
DiscretePass(annotation_map, entity_path, states, inits, normals, a) ==
    IF DiscreteBlock(states, inits, normals)
    THEN DiscreteIngest(annotation_map, states.entries, 1, entity_path,
             DiscreteNormal(normals.entries),
             [transitions |-> EmptyMap, min_time |-> a.min_time, max_time |-> a.max_time])
    ELSE [transitions |-> EmptyMap, min_time |-> a.min_time, max_time |-> a.max_time]

\* series.discrete_points.init after the discrete block
InitPass(annotation_map, entity_path, states, inits, normals) ==
    IF DiscreteBlock(states, inits, normals)
    THEN DiscreteInit(annotation_map, inits.entries, entity_path,
             DiscreteNormal(normals.entries))
    ELSE None

\* all_events after the event block, with the final time bounds
EventPass(annotation_map, entity_path, events, d, event_markers) ==
    IF events.tag = "Ok"
    THEN EventIngest(annotation_map, events.entries, 1, entity_path,
             [event_markers |-> event_markers, min_time |-> d.min_time,
              max_time |-> d.max_time])
    ELSE [event_markers |-> event_markers, min_time |-> d.min_time, max_time |-> d.max_time]

\* a bound the entity never set takes the value of the other one
ReconcileMin(min_time, max_time) == IF min_time = None THEN max_time ELSE min_time

ReconcileMax(min_time, max_time) == IF max_time = None THEN min_time ELSE max_time

\* The end of the closure: an entity with neither bound is skipped, any other is
\* handed to all_series.
\*   res: "Ok" or the QueryError; push: whether the series enters all_series.
EntityResult(entity_path, a, d, init, e) ==
    IF e.min_time = None /\ e.max_time = None
    THEN [res |-> "Ok", push |-> FALSE, series |-> None, event_markers |-> e.event_markers]
    ELSE [res |-> "Ok", push |-> TRUE,
          series |-> Some([entity_path     |-> entity_path,
                           min_time        |-> Unwrap(ReconcileMin(e.min_time, e.max_time)),
                           max_time        |-> Unwrap(ReconcileMax(e.min_time, e.max_time)),
                           analog_points   |-> [points |-> a.points, y_range |-> a.y_range],
                           discrete_points |-> [transitions |-> d.transitions, init |-> init],
                           color           |-> <<"auto", entity_path>>]),
          event_markers |-> e.event_markers]

\* the event block and the end of the closure, after the discrete block
EntityAfterDiscrete(annotation_map, entity_path, event_markers, states, inits, normals, events, a, d) ==
    EntityResult(entity_path, a, d,
                 InitPass(annotation_map, entity_path, states, inits, normals),
                 EventPass(annotation_map, entity_path, events, d, event_markers))

\* the discrete block and what follows it, after the analog block
EntityAfterAnalog(annotation_map, entity_path, event_markers, states, inits, normals, events, a) ==
    EntityAfterDiscrete(annotation_map, entity_path, event_markers, states, inits, normals,
                        events, a,
                        DiscretePass(annotation_map, entity_path, states, inits, normals, a))

\* a `?` on a failed query leaves the closure with the QueryError
QueryFailed(err, event_markers) ==
    [res |-> err, push |-> FALSE, series |-> None, event_markers |-> event_markers]

\* The closure on the five query results of one entity.
EntityQueries(annotation_map, entity_path, event_markers, scalars, states, inits, normals, events) ==
    IF scalars.tag = "Err" THEN QueryFailed(scalars.err, event_markers)
    ELSE IF DiscreteBlock(states, inits, normals) /\ states.tag = "Err"
    THEN QueryFailed(states.err, event_markers)
    ELSE IF DiscreteBlock(states, inits, normals) /\ inits.tag = "Err"
    THEN QueryFailed(inits.err, event_markers)
    ELSE IF DiscreteBlock(states, inits, normals) /\ normals.tag = "Err"
    THEN QueryFailed(normals.err, event_markers)
    ELSE IF events.tag = "Err" THEN QueryFailed(events.err, event_markers)
    ELSE EntityAfterAnalog(annotation_map, entity_path, event_markers, states, inits,
                           normals, events, AnalogPass(scalars))

\* The closure of try_for_each for one entity: the series it builds, the event
\* markers after it, and whether it pushes a series or fails.
EntityPass(st, annotation_map, entity_path, fault, dense, event_markers) ==
    IF DomainOf(entity_path) = None
    THEN [res |-> "Ok", push |-> FALSE, series |-> None, event_markers |-> event_markers]
    ELSE EntityQueries(annotation_map, entity_path, event_markers,
             get_required_component_dense(st, entity_path, "Scalar", fault, dense),
             get_required_component_dense(st, entity_path, "DiscreteState", fault, dense),
             get_required_component_dense(st, entity_path, "DiscreteStateInit", fault, dense),
             get_required_component_dense(st, entity_path, "DiscreteStateNormal", fault, dense),
             get_required_component_dense(st, entity_path, "Event", fault, dense))

\* AnalogPoints::push
push(analog_points, time, value) ==
    [analog_points EXCEPT !.points = MapInsert(@, time, [value |-> value])]

\* all_series.entry(domain).and_modify(push).or_insert(vec![series])
SeriesPush(series_map, domain, series) ==
    IF domain \in DOMAIN series_map
    THEN [series_map EXCEPT ![domain] = Append(@, series)]
    ELSE MapInsert(series_map, domain, << series >>)

\* What one entity's closure leaves in the system: a failure keeps what was
\* aggregated before it, a success may push one series.
AfterEntity(sys, entity_path, r) ==
    IF r.res # "Ok"
    THEN [res |-> r.res, all_series |-> sys.all_series, all_events |-> r.event_markers]
    ELSE [res        |-> "Ok",
          all_series |-> IF r.push
                         THEN SeriesPush(sys.all_series, Unwrap(DomainOf(entity_path)),
                                         Unwrap(r.series))
                         ELSE sys.all_series,
          all_events |-> r.event_markers]

\* series_iter.try_for_each(...): stops at the first entity whose closure fails.
RECURSIVE TryForEach(_, _, _, _, _, _)
TryForEach(st, annotation_map, i, fault, dense, sys) ==
    IF i > Len(VisibleEntities) \/ sys.res # "Ok" THEN sys
    ELSE TryForEach(st, annotation_map, i + 1, fault, dense,
             AfterEntity(sys, VisibleEntities[i],
                 EntityPass(st, annotation_map, VisibleEntities[i], fault, dense,
                            sys.all_events)))

\* a pass that starts on what the previous pass left in the system
ResetSystem_Keep(sys) ==
    [res |-> "Ok", all_series |-> sys.all_series, all_events |-> sys.all_events]

\* self.all_series = Default::default(); self.all_events = Default::default();
ResetSystem(sys) ==
    [res |-> "Ok", all_series |-> EmptyMap, all_events |-> EmptyMap]

\* WaveformSystem::load_points on the system sys = [all_series, all_events]: both
\* collections are reset first, then the annotation context (loaded from the
\* recording earlier in the frame) is fetched, then the entities are visited.
load_points(sys, st, fault, dense) ==
    IF fault = ContextFault
    THEN [ResetSystem(sys) EXCEPT !.res = "BadAccess"]
    ELSE TryForEach(st, AnnotationMapLoad(st), 1, fault, dense, ResetSystem(sys))

\* execute that surfaces every error of load_points
execute_EveryError(load_res) ==
    IF load_res = "Ok" THEN "Ok" ELSE "Err"

\* WaveformSystem::execute
execute(load_res) ==
    IF load_res = "Ok" \/ load_res = "PrimaryNotFound" THEN "Ok" ELSE "Err"

(***************************************************************************)
(* SelectedMode                                                            *)
(***************************************************************************)
Unselected == [tag |-> "Unselected"]

Selected(paths) == [tag |-> "Selected", paths |-> paths]

\* SelectedMode::selected
selected(mode) == mode.tag = "Selected"

\* toggle without the empty-set guard
toggle_NoEmptyGuard(mode, paths) ==
    IF mode.tag = "Selected" THEN Unselected ELSE Selected(paths)

\* SelectedMode::toggle
toggle(mode, paths) ==
    IF mode.tag = "Selected" THEN Unselected
    ELSE IF paths # {} THEN Selected(paths)
    ELSE Unselected

\* filter_path with the membership test inverted
filter_path_Inverted(mode, path) ==
    IF mode.tag = "Selected" THEN path \notin mode.paths ELSE TRUE

\* SelectedMode::filter_path
filter_path(mode, path) ==
    IF mode.tag = "Selected" THEN path \in mode.paths ELSE TRUE

(***************************************************************************)
(* Cursor lookup of the side panel.  Values are exact rationals            *)
(* [num, den] with den > 0 in lowest terms, or an infinity (num 1 or -1,   *)
(* den 0), or NaN (num 0, den 0).  Integer keys are rounded as `as f64`    *)
(* rounds them; the rounding of a quotient or product is not modelled.     *)
(***************************************************************************)
CURSOR_TIME_TOLERANCE == 1

Abs(x) == IF x < 0 THEN -x ELSE x

RECURSIVE Gcd(_, _)
Gcd(a, b) == IF b = 0 THEN a ELSE Gcd(b, a % b)

Rat(n, d) ==
    LET sn == IF d < 0 THEN -n ELSE n
        sd == Abs(d)
        g  == Gcd(Abs(sn), sd)
    IN [num |-> sn \div g, den |-> sd \div g]

\* BTreeMap::range(..).next(): the entry with the least key in the range
RangeNext(keys) == IF keys = {} THEN None ELSE Some(CHOOSE k \in keys : \A j \in keys : k <= j)

\* BTreeMap::range(..).last(): the entry with the greatest key in the range
RangeLast(keys) == IF keys = {} THEN None ELSE Some(CHOOSE k \in keys : \A j \in keys : k >= j)

RatNaN == [num |-> 0, den |-> 0]

\* f64 infinity of the given sign (1 or -1)
RatInf(sign) == [num |-> sign, den |-> 0]

Sign(x) == IF x < 0 THEN -1 ELSE IF x > 0 THEN 1 ELSE 0

\* a stored f64 as a computed value
FRat(v) == IF v = NaN THEN RatNaN ELSE Rat(v, 1)

\* f64 +: NaN when an operand is NaN or for inf + -inf
RatAdd(a, b) ==
    IF a = RatNaN \/ b = RatNaN THEN RatNaN
    ELSE IF a.den = 0 /\ b.den = 0 THEN (IF a.num = b.num THEN a ELSE RatNaN)
    ELSE IF a.den = 0 THEN a
    ELSE IF b.den = 0 THEN b
    ELSE Rat(a.num * b.den + b.num * a.den, a.den * b.den)

\* f64 *: NaN when an operand is NaN or for inf * 0
RatMul(a, b) ==
    IF a = RatNaN \/ b = RatNaN THEN RatNaN
    ELSE IF a.den = 0 \/ b.den = 0
    THEN (IF a.num = 0 \/ b.num = 0 THEN RatNaN ELSE RatInf(Sign(a.num) * Sign(b.num)))
    ELSE Rat(a.num * b.num, a.den * b.den)

\* f64 -
RatSub(a, b) == RatAdd(a, [num |-> -b.num, den |-> b.den])

\* f64 /: x / 0 is an infinity, 0 / 0 and inf / inf are NaN (the zero of a
\* difference x - x is +0.0)
RatDiv(a, b) ==
    IF a = RatNaN \/ b = RatNaN THEN RatNaN
    ELSE IF a.den = 0
    THEN (IF b.den = 0 THEN RatNaN ELSE RatInf(IF b.num < 0 THEN -a.num ELSE a.num))
    ELSE IF b.den = 0 THEN Rat(0, 1)
    ELSE IF b.num = 0 THEN (IF a.num = 0 THEN RatNaN ELSE RatInf(Sign(a.num)))
    ELSE Rat(a.num * b.den, a.den * b.num)

\* f64::MANTISSA_DIGITS: the bits of the significand of an f64
F64_MANTISSA_DIGITS == 53

\* The number of binary digits of a natural number.
RECURSIVE BitLen(_)
BitLen(n) == IF n = 0 THEN 0 ELSE 1 + BitLen(n \div 2)

\* a rounded to the nearest multiple of ulp, a tie to the even multiple
RoundTiesEven(a, ulp) ==
    IF 2 * (a % ulp) > ulp \/ (2 * (a % ulp) = ulp /\ (a \div ulp) % 2 = 1)
    THEN (a \div ulp + 1) * ulp
    ELSE (a \div ulp) * ulp

\* `i as f64` of an integer: exact up to 53 binary digits, beyond them the
\* nearest f64 (ties to even).  The difference of two integer-valued f64 is
\* the same rounding of the exact difference.
AsF64(i) ==
    IF BitLen(Abs(i)) <= F64_MANTISSA_DIGITS THEN i
    ELSE Sign(i) * RoundTiesEven(Abs(i), 2 ^ (BitLen(Abs(i)) - F64_MANTISSA_DIGITS))

\* ns_per_day = 24 * 60 * 60 * 1_000_000_000, kept as its two factors: the
\* seconds of a day and the nanoseconds of a second
SEC_PER_DAY == 24 * 60 * 60

NS_PER_SEC == 1000000000

\* A time of the store is an i64: a sequence number, or nanoseconds since the
\* Unix epoch.  It is held as its distance from midnight of day time_origin
\* after 1970-01-01: the i64 is time_origin * SEC_PER_DAY * NS_PER_SEC + t.
\* Day 0 holds the i64 itself; day EPOCH_DAY (2023-11-15) holds timestamps of
\* a present-day recording, 1 700 006 400 000 000 000 + t.
EPOCH_DAY == 19676

\* The origin of day EPOCH_DAY lies between 2^60 and 2^61, where two
\* neighbouring f64 are 2^(61 - 53) apart; it is a multiple of 2^16, an even
\* number of such steps.
EPOCH_ULP == 256

\* `t as f64` of a time of the store, as its distance from the origin
TimeAsF64(t) ==
    IF time_origin = 0 THEN AsF64(t) ELSE RoundTiesEven(t, EPOCH_ULP)

\* (p2.value - p1.value) / (t2 - t1), on t1 and t2 as f64
Slope(t1, p1, t2, p2) ==
    RatDiv(RatSub(FRat(p2), FRat(p1)), Rat(AsF64(t2 - t1), 1))

\* let t1 = *t1 as f64; let t2 = *t2 as f64;
\* slope = (p2.value - p1.value) / (t2 - t1);
\* value = p1.value + slope * (seek_time as f64 - t1)
Interpolate(t1, p1, t2, p2, seek_time) ==
    RatAdd(FRat(p1), RatMul(Slope(TimeAsF64(t1), p1, TimeAsF64(t2), p2),
                            Rat(AsF64(TimeAsF64(seek_time) - TimeAsF64(t1)), 1)))

\* lookup whose window is the exact key only (no tolerance)
AnalogLookup_NoTolerance(points, seek_time) ==
    LET keys   == DOMAIN points
        window == RangeNext({k \in keys : k = seek_time})
        point_before == RangeLast({k \in keys : k < seek_time})
        point_after  == RangeNext({k \in keys : k > seek_time})
    IN IF IsSome(window)
       THEN [analog_point |-> Some(FRat(points[Unwrap(window)].value)),
             is_interpolated |-> FALSE]
       ELSE IF IsSome(point_before) /\ IsSome(point_after)
            THEN [analog_point |->
                      Some(Interpolate(Unwrap(point_before), points[Unwrap(point_before)].value,
                                       Unwrap(point_after), points[Unwrap(point_after)].value,
                                       seek_time)),
                  is_interpolated |-> TRUE]
            ELSE [analog_point |-> None, is_interpolated |-> FALSE]

\* lookup that interpolates whenever it can and uses the window only otherwise
AnalogLookup_InterpolateFirst(points, seek_time) ==
    LET keys   == DOMAIN points
        window == RangeNext({k \in keys : /\ k >= seek_time - CURSOR_TIME_TOLERANCE
                                          /\ k <= seek_time + CURSOR_TIME_TOLERANCE})
        point_before == RangeLast({k \in keys : k < seek_time})
        point_after  == RangeNext({k \in keys : k > seek_time})
    IN IF IsSome(point_before) /\ IsSome(point_after)
       THEN [analog_point |->
                 Some(Interpolate(Unwrap(point_before), points[Unwrap(point_before)].value,
                                  Unwrap(point_after), points[Unwrap(point_after)].value,
                                  seek_time)),
             is_interpolated |-> TRUE]
       ELSE IF IsSome(window)
            THEN [analog_point |-> Some(FRat(points[Unwrap(window)].value)),
                  is_interpolated |-> FALSE]
            ELSE [analog_point |-> None, is_interpolated |-> FALSE]

\* analog_point and is_interpolated of one series at seek_time
AnalogLookup(points, seek_time) ==
    LET keys   == DOMAIN points
        window == RangeNext({k \in keys : /\ k >= seek_time - CURSOR_TIME_TOLERANCE
                                          /\ k <= seek_time + CURSOR_TIME_TOLERANCE})
        point_before == RangeLast({k \in keys : k < seek_time})
        point_after  == RangeNext({k \in keys : k > seek_time})
    IN IF IsSome(window)
       THEN [analog_point |-> Some(FRat(points[Unwrap(window)].value)),
             is_interpolated |-> FALSE]
       ELSE IF IsSome(point_before) /\ IsSome(point_after)
            THEN [analog_point |->
                      Some(Interpolate(Unwrap(point_before), points[Unwrap(point_before)].value,
                                       Unwrap(point_after), points[Unwrap(point_after)].value,
                                       seek_time)),
                  is_interpolated |-> TRUE]
            ELSE [analog_point |-> None, is_interpolated |-> FALSE]

\* lookup that falls back to the init transition before the first key
DiscreteLookup_InitFallback(discrete_points, seek_time) ==
    LET last == RangeLast({k \in DOMAIN discrete_points.transitions : k <= seek_time})
    IN IF IsSome(last)
       THEN Some(<<Unwrap(last), discrete_points.transitions[Unwrap(last)]>>)
       ELSE IF IsSome(discrete_points.init)
            THEN Some(<<seek_time, Unwrap(discrete_points.init)>>)
            ELSE None

\* discrete_point of one series at seek_time: (time, transition)
DiscreteLookup(discrete_points, seek_time) ==
    LET last == RangeLast({k \in DOMAIN discrete_points.transitions : k <= seek_time})
    IN IF IsSome(last)
       THEN Some(<<Unwrap(last), discrete_points.transitions[Unwrap(last)]>>)
       ELSE None

(***************************************************************************)
(* WaveformSpaceView::ui, the parts that carry state from frame to frame   *)
(* or feed the side panel.  Pointer interaction inside the plots (time     *)
(* cursor, second marker) is input here: seek_time is                      *)
(* lookup_cursor_value.or(current_time).                                   *)
(***************************************************************************)
\* BTreeMap<WaveformDomain, _> iterates its keys in ascending order.
DomainsSorted == <<"A", "D">>

\* WaveformSeries::len_series
len_series(series) ==
    Cardinality(DOMAIN series.analog_points.points)
        + Cardinality(DOMAIN series.discrete_points.transitions)

RECURSIVE SumLenSeries(_, _)
SumLenSeries(domain_series, i) ==
    IF i > Len(domain_series) THEN 0
    ELSE len_series(domain_series[i]) + SumLenSeries(domain_series, i + 1)

RECURSIVE SumDomains(_, _)
SumDomains(series_map, i) ==
    IF i > Len(DomainsSorted) THEN 0
    ELSE (IF DomainsSorted[i] \in DOMAIN series_map
          THEN SumLenSeries(series_map[DomainsSorted[i]], 1) ELSE 0)
         + SumDomains(series_map, i + 1)

\* current_sample_count: every series before filtering, plus WaveformEvents::len
current_sample_count(series_map, event_markers) ==
    SumDomains(series_map, 1) + Cardinality(DOMAIN event_markers)

\* an index that is the domain's position in key order, not the order of arrival
RECURSIVE AssignDomainIndex_Position(_, _, _)
AssignDomainIndex_Position(index, series_map, i) ==
    IF i > Len(DomainsSorted) THEN index
    ELSE AssignDomainIndex_Position(
             IF DomainsSorted[i] \in DOMAIN series_map /\ DomainsSorted[i] \notin DOMAIN index
             THEN MapInsert(index, DomainsSorted[i], i - 1)
             ELSE index,
             series_map, i + 1)

\* domain_index.entry(domain).or_insert(domain_index.len()) for every domain
RECURSIVE AssignDomainIndex(_, _, _)
AssignDomainIndex(index, series_map, i) ==
    IF i > Len(DomainsSorted) THEN index
    ELSE LET domain == DomainsSorted[i]
         IN AssignDomainIndex(
                IF domain \in DOMAIN series_map /\ domain \notin DOMAIN index
                THEN MapInsert(index, domain, Cardinality(DOMAIN index))
                ELSE index,
                series_map, i + 1)

\* s.into_iter().filter(|s| selected_mode.filter_path(&s.entity_path))
FilterSeries(domain_series, mode) ==
    LET Keep(s) == filter_path(mode, s.entity_path)
    IN SelectSeq(domain_series, Keep)

\* .filter(|(_, s)| s.iter().any(|s| s.len_series() > 0))
AnySamples(domain_series) ==
    \E i \in 1..Len(domain_series) : len_series(domain_series[i]) > 0

\* all_series.sort_by(|(a, _), (b, _)| domain_index[a].cmp(&domain_index[b]))
RECURSIVE SortByIndex(_, _)
SortByIndex(domains, index) ==
    IF domains = {} THEN << >>
    ELSE LET d == CHOOSE d \in domains : \A o \in domains : index[d] <= index[o]
         IN << d >> \o SortByIndex(domains \ {d}, index)

\* The (domain, series) pairs left after both filters, sorted by domain_index.
DisplayedDomains(series_map, mode, index) ==
    LET order == SortByIndex({d \in DOMAIN series_map :
                                 AnySamples(FilterSeries(series_map[d], mode))}, index)
    IN [i \in 1..Len(order) |->
           [domain |-> order[i], series |-> FilterSeries(series_map[order[i]], mode)]]

\* The entity paths of the displayed series, domain by domain.
DisplayedPaths(displayed) ==
    [i \in 1..Len(displayed) |->
        [domain |-> displayed[i].domain,
         series |-> [j \in 1..Len(displayed[i].series) |-> displayed[i].series[j].entity_path]]]

SeriesOf(series_map) ==
    {series_map[d][i] : <<d, i>> \in {<<d, i>> \in (DOMAIN series_map) \X (1..Len(VisibleEntities)) :
                                         i <= Len(series_map[d])}}

\* The series of the displayed domains.
DisplayedSeries(displayed) ==
    {displayed[i].series[j] : <<i, j>> \in {<<i, j>> \in (1..Len(displayed)) \X (1..Len(VisibleEntities)) :
                                               j <= Len(displayed[i].series)}}

\* The rows of the side panel: one per series of a displayed domain, when there
\* is a seek time.
Panel(displayed, seek_time) ==
    IF seek_time = None THEN EmptyMap
    ELSE [p \in {s.entity_path : s \in DisplayedSeries(displayed)} |->
             LET s == CHOOSE s \in DisplayedSeries(displayed) : s.entity_path = p
                 a == AnalogLookup(s.analog_points.points, Unwrap(seek_time))
             IN [analog_point    |-> a.analog_point,
                 is_interpolated |-> a.is_interpolated,
                 discrete_point  |-> DiscreteLookup(s.discrete_points, Unwrap(seek_time))]]

(***************************************************************************)
(* The discrete tracks: box elements of the displayed series.              *)
(***************************************************************************)
\* all_series ... map(|s| s.min_time).min().unwrap_or(0), over every series of
\* every domain; the i64 0 lies a whole number of days before the origin
ViewMinTime(series_map) ==
    IF SeriesOf(series_map) = {} THEN -(time_origin * SEC_PER_DAY * NS_PER_SEC)
    ELSE CHOOSE t \in {s.min_time : s \in SeriesOf(series_map)} :
             \A s \in SeriesOf(series_map) : t <= s.min_time

\* all_series ... map(|s| s.max_time).max().unwrap_or(min_time)
ViewMaxTime(series_map) ==
    IF SeriesOf(series_map) = {} THEN ViewMinTime(series_map)
    ELSE CHOOSE t \in {s.max_time : s \in SeriesOf(series_map)} :
             \A s \in SeriesOf(series_map) : t >= s.max_time

\* timeline.typ()
TimeTypes == {"Time", "Sequence"}

\* (ns + ns_per_day / 2) / ns_per_day * ns_per_day on i64, whose division
\* truncates toward zero.  With ns = secs * NS_PER_SEC + rem (0 <= rem < NS_PER_SEC)
\* the dividend is half_up * NS_PER_SEC + rem, and the quotient follows from
\* half_up and rem alone.  Counted from a later day the i64 is positive, its
\* quotient is the floor, and the whole days of the origin pass through.
round_ns_to_start_of_day(ns) ==
    LET secs    == ns \div NS_PER_SEC
        rem     == ns % NS_PER_SEC
        half_up == secs + SEC_PER_DAY \div 2
        days    == IF half_up >= 0 \/ time_origin > 0 THEN half_up \div SEC_PER_DAY
                   ELSE IF rem = 0 THEN -((-half_up) \div SEC_PER_DAY)
                   ELSE -((-half_up - 1) \div SEC_PER_DAY)
    IN days * SEC_PER_DAY * NS_PER_SEC

\* time_offset: min_time, rounded to the start of the day on a Time timeline
TimeOffset(series_map, time_type) ==
    IF time_type = "Time" THEN round_ns_to_start_of_day(ViewMinTime(series_map))
    ELSE ViewMinTime(series_map)

\* DiscretePoints::iter_box: every transition, in ascending key order
RECURSIVE iter_box(_, _)
iter_box(transitions, keys) ==
    IF keys = {} THEN << >>
    ELSE << [t |-> Unwrap(RangeNext(keys)), tr |-> transitions[Unwrap(RangeNext(keys))]] >>
             \o iter_box(transitions, keys \ {Unwrap(RangeNext(keys))})

\* the transparent element that ends the chain at max_time
Sentinel(max_time) ==
    [t |-> max_time, tr |-> [label |-> None, color |-> "TRANSPARENT", kind |-> "Line"]]

\* init.into_iter().chain(iter_box()).chain([(&max_time, ..)])
BoxChain(discrete_points, min_time, max_time) ==
    (IF IsSome(discrete_points.init)
     THEN << [t |-> min_time, tr |-> Unwrap(discrete_points.init)] >> ELSE << >>)
        \o iter_box(discrete_points.transitions, DOMAIN discrete_points.transitions)
        \o << Sentinel(max_time) >>

\* .tuple_windows().filter_map(..): one BoxElem per window that starts with a
\* Box transition, spread from t to t_end in plot coordinates
RECURSIVE BoxWindows(_, _, _)
BoxWindows(chain, i, time_offset) ==
    IF i >= Len(chain) THEN << >>
    ELSE (IF chain[i].tr.kind = "Box"
          THEN << [t     |-> AsF64(chain[i].t - time_offset),
                   t_end |-> AsF64(chain[i + 1].t - time_offset),
                   label |-> chain[i].tr.label] >>
          ELSE << >>)
             \o BoxWindows(chain, i + 1, time_offset)

\* for (l, series) in discrete_series_of_interest.enumerate(): the boxes of each
\* series, by entity path
DiscreteBoxes(discrete_series_of_interest, min_time, max_time, time_offset) ==
    [p \in {s.entity_path : s \in discrete_series_of_interest} |->
        BoxWindows(BoxChain((CHOOSE s \in discrete_series_of_interest :
                                 s.entity_path = p).discrete_points,
                            min_time, max_time), 1, time_offset)]

\* box_elements of every displayed series whose discrete points are not empty
box_elements(displayed, min_time, max_time, time_offset) ==
    DiscreteBoxes({s \in DisplayedSeries(displayed) :
                      s.discrete_points.transitions # EmptyMap},
                  min_time, max_time, time_offset)

(***************************************************************************)
(* bounds_data: per displayed domain, the value band and the plot bounds   *)
(* to set.  Bounds are exact rationals; only their value (y) part is kept. *)
(***************************************************************************)
\* Percentage increase in waveform padding on reset: 0.2
DEFAULT_WAVEFORM_PADDING_PC == Rat(1, 5)

\* domain_series.iter().fold(None, ..) over the range minima: a series without
\* y_range turns the accumulator back to None.
RECURSIVE FoldMinY(_, _, _)
FoldMinY(domain_series, i, acc) ==
    IF i > Len(domain_series) THEN acc
    ELSE FoldMinY(domain_series, i + 1,
             IF IsSome(domain_series[i].analog_points.y_range)
             THEN (IF IsSome(acc)
                   THEN Some(FMin(Unwrap(acc), Unwrap(domain_series[i].analog_points.y_range)[1]))
                   ELSE Some(Unwrap(domain_series[i].analog_points.y_range)[1]))
             ELSE None)

\* the same fold over the range maxima
RECURSIVE FoldMaxY(_, _, _)
FoldMaxY(domain_series, i, acc) ==
    IF i > Len(domain_series) THEN acc
    ELSE FoldMaxY(domain_series, i + 1,
             IF IsSome(domain_series[i].analog_points.y_range)
             THEN (IF IsSome(acc)
                   THEN Some(FMax(Unwrap(acc), Unwrap(domain_series[i].analog_points.y_range)[2]))
                   ELSE Some(Unwrap(domain_series[i].analog_points.y_range)[2]))
             ELSE None)

Band(min_y, max_y, any_analog_points) ==
    [tag |-> "Ok", min_y |-> min_y, max_y |-> max_y, any_analog_points |-> any_analog_points]

\* (v - 0.5, v + 0.5, true)
BandAround(v) ==
    Band(RatSub(FRat(v), Rat(1, 2)), RatAdd(FRat(v), Rat(1, 2)), TRUE)

\* match (min_y, max_y): the band before padding, or "Invalid analog y range"
MatchBounds(min_y, max_y) ==
    IF min_y = None /\ max_y = None THEN Band(Rat(-1, 1), Rat(1, 1), FALSE)
    ELSE IF min_y = None THEN BandAround(Unwrap(max_y))
    ELSE IF max_y = None THEN BandAround(Unwrap(min_y))
    ELSE IF FLt(Unwrap(min_y), Unwrap(max_y))
    THEN Band(FRat(Unwrap(min_y)), FRat(Unwrap(max_y)), TRUE)
    ELSE IF FEq(Unwrap(min_y), Unwrap(max_y)) THEN BandAround(Unwrap(min_y))
    ELSE [tag |-> "Err", min_y |-> Rat(0, 1), max_y |-> Rat(0, 1),
          any_analog_points |-> FALSE]

\* new_plot_bounds: the band padded by delta = spread_y * DEFAULT_WAVEFORM_PADDING_PC
NewPlotBounds(band, reset_click, has_new_samples) ==
    IF reset_click \/ has_new_samples
    THEN Some(<<RatSub(band.min_y,
                       RatMul(RatSub(band.max_y, band.min_y), DEFAULT_WAVEFORM_PADDING_PC)),
                RatAdd(band.max_y,
                       RatMul(RatSub(band.max_y, band.min_y), DEFAULT_WAVEFORM_PADDING_PC))>>)
    ELSE None

\* One element of bounds_data: (any_analog_points, new_plot_bounds), with the
\* folded bounds and the band they were taken from.
DomainBounds(fold_min, fold_max, band, reset_click, has_new_samples) ==
    [tag               |-> band.tag,
     fold_min          |-> fold_min,
     fold_max          |-> fold_max,
     min_y             |-> band.min_y,
     max_y             |-> band.max_y,
     any_analog_points |-> band.any_analog_points,
     new_plot_bounds   |-> IF band.tag = "Ok"
                           THEN NewPlotBounds(band, reset_click, has_new_samples)
                           ELSE None]

FoldedBounds(fold_min, fold_max, reset_click, has_new_samples) ==
    DomainBounds(fold_min, fold_max, MatchBounds(fold_min, fold_max), reset_click,
                 has_new_samples)

\* The elements of bounds_data, one per displayed domain.
BoundsItems(displayed, reset_click, has_new_samples) ==
    [i \in 1..Len(displayed) |->
        FoldedBounds(FoldMinY(displayed[i].series, 1, None),
                     FoldMaxY(displayed[i].series, 1, None), reset_click, has_new_samples)]

\* try_collect()?: Err as soon as the bounds of one domain are invalid
TryCollect(items) ==
    IF \E i \in 1..Len(items) : items[i].tag = "Err"
    THEN [tag |-> "Err", items |-> << >>]
    ELSE [tag |-> "Ok", items |-> items]

bounds_data(displayed, reset_click, has_new_samples) ==
    TryCollect(BoundsItems(displayed, reset_click, has_new_samples))

\* No bounds_data in a frame that returns before it.
NoBounds == [tag |-> "None", items |-> << >>]

\* Keys and modifiers of a frame's input.
Keys == {"Ctrl", "Shift", "Space", "Enter"}

\* ui.ctx().input(|i| i.modifiers.ctrl)
ctrl_pressed(keys) == "Ctrl" \in keys

\* ui.ctx().input(|i| i.key_pressed(egui::Key::Space))
space_pressed(keys) == "Space" \in keys

NoFrame == [ret |-> "", no_data |-> FALSE, keys |-> {}, reset_click |-> FALSE,
            toggled |-> FALSE, selection |-> {}, visible |-> {}, displayed |-> << >>,
            bounds |-> NoBounds, seek_time |-> None, panel |-> EmptyMap,
            time_type |-> "", time_offset |-> 0, boxes |-> EmptyMap]

(***************************************************************************)
(* State and actions                                                       *)
(***************************************************************************)
NoExec == [load |-> "", ret |-> ""]

\* The annotation contexts a recording may hold before any sample is logged:
\* one on every entity, or one on the discrete entity only (as the example
\* application logs them).
ContextChoices == {Entities, {d1}}

AnnotatedStore == RegisteredStore(Entities)

\* A new view on a recording that holds the annotation contexts of `contexts`
\* and no sample, its times counted from day `origin`.
InitAt(contexts, origin) ==
    /\ time_origin = origin
    /\ store = RegisteredStore(contexts)
    /\ all_series = EmptyMap
    /\ all_events = EmptyMap
    /\ exec_result = NoExec
    /\ selected_mode = Unselected
    /\ domain_index = EmptyMap
    /\ last_frame_sample_count = 0
    /\ frame = NoFrame

InitWith(contexts) == InitAt(contexts, 0)

Init == \E contexts \in ContextChoices : InitWith(contexts)

\* The recording holds a context on every entity.
InitAnnotated == InitWith(Entities)

\* The recording holds a context on every entity and nanosecond timestamps of
\* day EPOCH_DAY.
InitEpoch == InitAt(Entities, EPOCH_DAY)

\* The logging side appends one (time, value-bag) entry to one component stream.
Log(c) ==
    /\ StoreSize(store) < MaxLog
    /\ store' = [store EXCEPT ![c.entity][c.kind] =
                     InsertSorted(@, [time |-> c.time, data |-> c.data])]
    /\ UNCHANGED <<all_series, all_events, exec_result, selected_mode, domain_index,
                   last_frame_sample_count, frame, time_origin>>

\* The logging side writes one entry of a scripted scenario, each entry once.
LogScenario(c) ==
    /\ \A i \in 1..Len(store[c.entity][c.kind]) :
           store[c.entity][c.kind][i] # [time |-> c.time, data |-> c.data]
    /\ store' = [store EXCEPT ![c.entity][c.kind] =
                     InsertSorted(@, [time |-> c.time, data |-> c.data])]
    /\ UNCHANGED <<all_series, all_events, exec_result, selected_mode, domain_index,
                   last_frame_sample_count, frame, time_origin>>

\* One aggregation pass: WaveformSystem::execute calling load_points.
Execute(fault, dense) ==
    \E r \in {load_points([all_series |-> all_series, all_events |-> all_events],
                            store, fault, dense)} :
        /\ all_series' = r.all_series
        /\ all_events' = r.all_events
        /\ exec_result' = [load |-> r.res, ret |-> execute(r.res)]
        /\ UNCHANGED <<store, selected_mode, domain_index, last_frame_sample_count, frame,
                       time_origin>>

\* The plots of the frame, drawn inside ui.vertical after bounds_data: when
\* try_collect()? fails the closure returns before any plot, so no box is drawn.
PlotBoxes(bounds, displayed, min_time, max_time, time_offset) ==
    IF bounds.tag = "Ok" THEN box_elements(displayed, min_time, max_time, time_offset)
    ELSE EmptyMap

\* One ui pass over the system's current output, on a timeline of type time_type.
\* A frame that has nothing to display returns before its time offset is used
\* and records none.
UiFrame(keys, reset_click, selected_entity_paths, seek_time, time_type) ==
    LET toggled == ctrl_pressed(keys) /\ space_pressed(keys)
        mode == IF toggled THEN toggle(selected_mode, selected_entity_paths)
                ELSE selected_mode
        count == current_sample_count(all_series, all_events)
        index == AssignDomainIndex(domain_index, all_series, 1)
        displayed == DisplayedDomains(all_series, mode, index)
        visible == {s.entity_path : s \in {s \in SeriesOf(all_series) :
                                               filter_path(mode, s.entity_path)}}
        has_new_samples == count # last_frame_sample_count
    IN /\ selected_mode' = mode
       /\ domain_index' = index
       /\ IF displayed = << >>
          THEN /\ last_frame_sample_count' = last_frame_sample_count
               /\ frame' = [ret |-> "Ok", no_data |-> TRUE, keys |-> keys,
                            reset_click |-> reset_click, toggled |-> toggled,
                            selection |-> selected_entity_paths, visible |-> visible,
                            displayed |-> << >>, bounds |-> NoBounds,
                            seek_time |-> seek_time, panel |-> EmptyMap,
                            time_type |-> time_type, time_offset |-> 0,
                            boxes |-> EmptyMap]
          ELSE /\ last_frame_sample_count' = count
               /\ \E bounds \in {bounds_data(displayed, reset_click, has_new_samples)} :
                      frame' = [ret |-> "Ok", no_data |-> FALSE, keys |-> keys,
                                reset_click |-> reset_click, toggled |-> toggled,
                                selection |-> selected_entity_paths, visible |-> visible,
                                displayed |-> DisplayedPaths(displayed),
                                bounds |-> bounds,
                                seek_time |-> seek_time,
                                panel |-> Panel(displayed, seek_time),
                                time_type |-> time_type,
                                time_offset |-> TimeOffset(all_series, time_type),
                                boxes |-> PlotBoxes(bounds, displayed,
                                                    ViewMinTime(all_series),
                                                    ViewMaxTime(all_series),
                                                    TimeOffset(all_series, time_type))]
       /\ UNCHANGED <<store, all_series, all_events, exec_result, time_origin>>

(***************************************************************************)
(* Bounded inputs.  Every specification runs the same actions; they differ *)
(* in the entries the logging side may write and in the inputs of a frame. *)
(***************************************************************************)
Entry(e, k, t, data) == [entity |-> e, kind |-> k, time |-> t, data |-> data]

\* Aggregation: two logging entities, two times, empty / single / multi value-bags,
\* class id 2 unresolvable.
LoadCatalog ==
    UNION {
        {Entry(e, "Scalar", t, <<v>>) : t \in {0, 1}, v \in {3, 7}}
        \cup {Entry(e, "Scalar", 0, << >>), Entry(e, "Scalar", 0, <<3, 7>>)}
        \cup {Entry(e, "DiscreteState", t, <<c>>) : t \in {0, 1}, c \in ClassIds}
        \cup {Entry(e, "DiscreteState", 0, << >>), Entry(e, "DiscreteState", 0, <<0, 1>>)}
        \cup {Entry(e, "DiscreteStateInit", 0, <<c>>) : c \in {1, 2}}
        \cup {Entry(e, "DiscreteStateNormal", 0, <<c>>) : c \in {0, 1}}
        \cup {Entry(e, "Event", t, <<c>>) : t \in {0, 1}, c \in {0, 2}}
        \cup {Entry(e, "Event", 0, << >>), Entry(e, "Event", 0, <<0, 1>>)}
      : e \in {y1, d1}}

\* Selection: one analog sample per entity.
SelCatalog == {Entry(e, "Scalar", 0, <<3>>) : e \in {y1, d1}}

\* A path the host may select that never carries a series.
OtherPath == <<"X", "x1">>

SelectablePaths == Entities \cup {OtherPath}

\* Lookup: analog samples and discrete states of one entity on a wider time axis.
LookupCatalog ==
    {Entry(y1, "Scalar", 0, <<0>>), Entry(y1, "Scalar", 1, <<0>>),
     Entry(y1, "Scalar", 1, <<10>>), Entry(y1, "Scalar", 10, <<10>>)}
    \cup {Entry(y1, "DiscreteState", 0, <<0>>), Entry(y1, "DiscreteState", 10, <<1>>)}
    \cup {Entry(y1, "DiscreteStateInit", 0, <<1>>)}

SeekTimes == {-2, -1, 0, 1, 2, 5, 11}

\* End to end: A/y1 logs two scalars, D/d1 two discrete states and its normal
\* class; nothing is logged on the initial-state stream.
E2ECatalog ==
    {Entry(y1, "Scalar", 0, <<1>>), Entry(y1, "Scalar", 100, <<2>>),
     Entry(d1, "DiscreteState", 0, <<0>>), Entry(d1, "DiscreteState", 50, <<1>>),
     Entry(d1, "DiscreteStateNormal", 0, <<0>>)}

E2ESeekTimes == {25, 50}

\* Failing passes: one sample stream of each kind to aggregate.
FaultCatalog ==
    {Entry(y1, "Scalar", 0, <<3>>), Entry(d1, "DiscreteState", 0, <<1>>),
     Entry(d1, "Event", 1, <<0>>)}

\* Bounds: two entities of one domain, with analog samples (one of them NaN)
\* or with events only.
BoundsCatalog ==
    {Entry(y1, "Scalar", 0, <<3>>), Entry(y1, "Scalar", 1, <<7>>),
     Entry(y1, "Scalar", 0, <<NaN>>), Entry(y1, "Event", 0, <<0>>),
     Entry(y2, "Scalar", 0, <<5>>), Entry(y2, "Event", 0, <<0>>)}

\* Aggregation passes over what was logged.
Next ==
    \/ \E c \in LoadCatalog : Log(c)
    \/ \E dense \in BOOLEAN : Execute(NoFault, dense)

Spec == Init /\ [][Next]_vars

\* Frames that press keys over a changing host selection.
NextSel ==
    \/ \E c \in SelCatalog : Log(c)
    \/ Execute(NoFault, FALSE)
    \/ \E keys \in {{}, {"Ctrl", "Space"}}, paths \in SUBSET SelectablePaths :
           UiFrame(keys, FALSE, paths, None, "Sequence")

SpecSel == InitAnnotated /\ [][NextSel]_vars

\* Frames that move the cursor over one entity's series.
NextLookup ==
    \/ \E c \in LookupCatalog : Log(c)
    \/ Execute(NoFault, TRUE)
    \/ \E t \in SeekTimes : UiFrame({}, FALSE, {}, Some(t), "Sequence")

SpecLookup == InitAnnotated /\ [][NextLookup]_vars

\* The same frames over the same entries, logged as timestamps of day EPOCH_DAY
\* on a Time timeline.
NextEpoch ==
    \/ \E c \in LookupCatalog : Log(c)
    \/ Execute(NoFault, TRUE)
    \/ \E t \in SeekTimes : UiFrame({}, FALSE, {}, Some(t), "Time")

SpecEpoch == InitEpoch /\ [][NextEpoch]_vars

\* The scripted end-to-end scenario, aggregated and looked up.
NextE2E ==
    \/ \E c \in E2ECatalog : LogScenario(c)
    \/ \E dense \in BOOLEAN : Execute(NoFault, dense)
    \/ \E t \in E2ESeekTimes : UiFrame({}, FALSE, {}, Some(t), "Sequence")

SpecE2E == InitAnnotated /\ [][NextE2E]_vars

\* Passes in which one query, or the fetch of the annotation context, may fail.
NextFault ==
    \/ \E c \in FaultCatalog : Log(c)
    \/ \E fault \in Faults \cup {NoFault}, dense \in BOOLEAN : Execute(fault, dense)

SpecFault == Init /\ [][NextFault]_vars

\* Frames that lay out one domain, with the reset click and the toggle keys.
NextBounds ==
    \/ \E c \in BoundsCatalog : Log(c)
    \/ Execute(NoFault, FALSE)
    \/ \E keys \in {{}, {"Ctrl", "Space"}}, reset_click \in BOOLEAN, paths \in {{y1}, {y2}} :
           UiFrame(keys, reset_click, paths, None, "Sequence")

SpecBounds == InitAnnotated /\ [][NextBounds]_vars

\* Events: bags of class ids fired by two entities at two times, one of them
\* empty and one with an id the annotation table does not resolve, next to
\* analog samples and the three discrete streams.
EventCatalog ==
    {Entry(y1, "Event", 0, <<0, 1>>), Entry(y1, "Event", 0, <<2>>),
     Entry(y1, "Event", 1, << >>), Entry(d1, "Event", 0, <<0>>),
     Entry(d1, "Event", 1, <<2>>), Entry(y1, "Scalar", 0, <<3>>),
     Entry(y1, "Scalar", 1, <<7>>), Entry(y1, "Scalar", 0, << >>),
     Entry(d1, "DiscreteState", 0, <<1>>), Entry(d1, "DiscreteState", 1, <<0>>),
     Entry(d1, "DiscreteStateInit", 0, <<1>>),
     Entry(d1, "DiscreteStateNormal", 0, <<0>>)}

NextEvents ==
    \/ \E c \in EventCatalog : Log(c)
    \/ \E dense \in BOOLEAN : Execute(NoFault, dense)

SpecEvents == Init /\ [][NextEvents]_vars

\* Malformed samples: empty and two-valued analog and discrete-state entries,
\* later than or at the time of the well-formed ones.
MalformedCatalog ==
    {Entry(y1, "Scalar", 0, <<3>>), Entry(y1, "Scalar", 0, << >>),
     Entry(y1, "Scalar", 1, << >>), Entry(y1, "Scalar", 1, <<3, 7>>),
     Entry(d1, "DiscreteState", 0, <<1>>), Entry(d1, "DiscreteState", 0, <<0, 1>>),
     Entry(d1, "DiscreteState", 1, << >>), Entry(d1, "DiscreteState", 1, <<0, 1>>),
     Entry(d1, "DiscreteStateInit", 0, <<1>>), Entry(d1, "DiscreteStateNormal", 0, <<0>>)}

NextMalformed ==
    \/ \E c \in MalformedCatalog : Log(c)
    \/ \E dense \in BOOLEAN : Execute(NoFault, dense)

SpecMalformed == Init /\ [][NextMalformed]_vars

\* Discrete tracks: a discrete entity with an init state, a normal state and
\* transitions of both kinds, next to an analog entity of another domain whose
\* samples start earlier and end later.
BoxCatalog ==
    {Entry(y1, "Scalar", 0, <<3>>), Entry(y1, "Scalar", 5, <<7>>),
     Entry(d1, "DiscreteState", 1, <<1>>), Entry(d1, "DiscreteState", 2, <<0>>),
     Entry(d1, "DiscreteState", 3, <<1>>),
     Entry(d1, "DiscreteStateInit", 0, <<1>>), Entry(d1, "DiscreteStateNormal", 0, <<0>>)}

NextBox ==
    \/ \E c \in BoxCatalog : LogScenario(c)
    \/ \E dense \in BOOLEAN : Execute(NoFault, dense)
    \/ \E time_type \in TimeTypes : UiFrame({}, FALSE, {}, None, time_type)

SpecBox == InitAnnotated /\ [][NextBox]_vars

\* Frames with every combination of the keys, over a fixed host selection.
NextKeys ==
    \/ \E c \in SelCatalog : Log(c)
    \/ Execute(NoFault, FALSE)
    \/ \E keys \in SUBSET Keys : UiFrame(keys, FALSE, {y1}, None, "Sequence")

SpecKeys == InitAnnotated /\ [][NextKeys]_vars

(***************************************************************************)
(* Properties                                                              *)
(***************************************************************************)
\* A step of a ui pass: the system's output is only read.
UiPass == UNCHANGED <<store, all_series, all_events, exec_result>>

\* A step of an aggregation pass: the store and the view state are only read.
ExecPass == UNCHANGED <<store, selected_mode, domain_index, last_frame_sample_count, frame>>

\* The class ids the resolver resolves for an entity: the ones its own
\* annotation context describes.
Resolvable(st, e, class_id) ==
    /\ st[e]["AnnotationContext"] # << >>
    /\ class_id \in DOMAIN AnnotationTable

SeriesPaths(series_map) == {s.entity_path : s \in SeriesOf(series_map)}

HasSeries(series_map, path) == path \in SeriesPaths(series_map)

SeriesAt(series_map, path) == CHOOSE s \in SeriesOf(series_map) : s.entity_path = path

SetMin(S) == CHOOSE k \in S : \A j \in S : k <= j

SetMax(S) == CHOOSE k \in S : \A j \in S : k >= j

\* C1: a toggle takes Unselected with an empty path set to Unselected, Unselected
\* with a non-empty set S to Selected(S), and Selected(anything) with any set to
\* Unselected, which remembers no set.
C1_Toggle ==
    [][UiPass /\ frame'.toggled =>
         /\ (selected_mode = Unselected /\ frame'.selection = {}
                => selected_mode' = Unselected)
         /\ (selected_mode = Unselected /\ frame'.selection # {}
                => selected_mode' = Selected(frame'.selection))
         /\ (selected_mode.tag = "Selected" => selected_mode' = Unselected)]_vars

\* A toggle has just entered Selected with the host's non-empty selection.
C1_Witness ==
    /\ frame.toggled
    /\ frame.selection # {}
    /\ selected_mode = Selected(frame.selection)

\* C2: in Unselected every aggregated series passes the filter; in Selected(S)
\* exactly the series whose path is in S pass, S being the host selection of the
\* frame that toggled, whatever the host selects in later frames.
C2_Visible ==
    [][UiPass =>
         /\ (selected_mode'.tag = "Unselected"
                => frame'.visible = SeriesPaths(all_series))
         /\ (selected_mode'.tag = "Selected"
                => frame'.visible = SeriesPaths(all_series) \cap selected_mode'.paths)
         /\ (selected_mode'.tag = "Selected" /\ frame'.toggled
                => selected_mode'.paths = frame'.selection)
         /\ (selected_mode'.tag = "Selected" /\ ~frame'.toggled
                => selected_mode' = selected_mode)]_vars

\* A later frame in Selected mode whose host selection differs from the captured
\* set: some series shown, some hidden.
C2_Witness ==
    /\ selected_mode.tag = "Selected"
    /\ ~frame.toggled
    /\ frame.selection # selected_mode.paths
    /\ frame.visible = SeriesPaths(all_series) \cap selected_mode.paths
    /\ frame.visible # {}
    /\ frame.visible # SeriesPaths(all_series)

\* The rows of the panel of a ui pass satisfy P(series, seek time, row).
PanelRows(P(_, _, _)) ==
    UiPass =>
        \A s \in SeriesOf(all_series) :
            s.entity_path \in DOMAIN frame'.panel
                => P(s, Unwrap(frame'.seek_time), frame'.panel[s.entity_path])

\* The analog points (0, 0.0) and (10, 10.0).
C3_Points == [t \in {0, 10} |-> [value |-> t]]

C3_OriginalRow(s, T, row) ==
    s.analog_points.points = C3_Points =>
        /\ (T = 5 => row.analog_point = Some(Rat(5, 1)) /\ row.is_interpolated)
        /\ (T = 0 => row.analog_point = Some(Rat(0, 1)) /\ ~row.is_interpolated)
        /\ (T = -1 => row.analog_point = None)

\* C3 as stated: with the points (0, 0.0) and (10, 10.0) the lookup at 5 is 5.0
\* interpolated, at 0 is 0.0 not interpolated, and at -1 is None.
C3_Original == [][PanelRows(C3_OriginalRow)]_vars

C3_AmendedRow(s, T, row) ==
    s.analog_points.points = C3_Points =>
        /\ (T = 5 => row.analog_point = Some(Rat(5, 1)) /\ row.is_interpolated)
        /\ (T = 0 => row.analog_point = Some(Rat(0, 1)) /\ ~row.is_interpolated)
        /\ (T = -1 => row.analog_point = Some(Rat(0, 1)) /\ ~row.is_interpolated)
        /\ (T = -2 => row.analog_point = None /\ ~row.is_interpolated)

\* C3 amended: with the points (0, 0.0) and (10, 10.0) the lookup at 5 is 5.0
\* interpolated, at 0 is 0.0 not interpolated, at -1 is 0.0 not interpolated (key
\* 0 is within the tolerance of 1), and at -2 is None.
C3_Amended == [][PanelRows(C3_AmendedRow)]_vars

\* The panel shows 0.0 at seek time -1 for the series with exactly these points.
C3_Witness ==
    /\ frame.seek_time = Some(-1)
    /\ y1 \in DOMAIN frame.panel
    /\ frame.panel[y1].analog_point = Some(Rat(0, 1))
    /\ HasSeries(all_series, y1)
    /\ SeriesAt(all_series, y1).analog_points.points = C3_Points

WindowKeys(points, T) == {k \in DOMAIN points : k >= T - 1 /\ k <= T + 1}

C4_Row(s, T, row) ==
    WindowKeys(s.analog_points.points, T) # {} =>
        /\ ~row.is_interpolated
        /\ \E k \in WindowKeys(s.analog_points.points, T) :
               row.analog_point = Some(Rat(s.analog_points.points[k].value, 1))

\* C4: when some analog key lies in [T-1, T+1], the lookup returns the stored
\* value of a point of that window, not interpolated.
C4_Window == [][PanelRows(C4_Row)]_vars

\* Seek time 1 between the keys 0 and 10 of different values: the value stored at
\* key 0 is shown although interpolation was possible.
C4_Witness ==
    /\ frame.seek_time = Some(1)
    /\ y1 \in DOMAIN frame.panel
    /\ HasSeries(all_series, y1)
    /\ DOMAIN SeriesAt(all_series, y1).analog_points.points = {0, 10}
    /\ SeriesAt(all_series, y1).analog_points.points[0].value
           # SeriesAt(all_series, y1).analog_points.points[10].value
    /\ frame.panel[y1].analog_point
           = Some(Rat(SeriesAt(all_series, y1).analog_points.points[0].value, 1))
    /\ ~frame.panel[y1].is_interpolated

C5_Row(s, T, row) ==
    LET points == s.analog_points.points
        before == {k \in DOMAIN points : k < T}
        after  == {k \in DOMAIN points : k > T}
    IN WindowKeys(points, T) = {} =>
        IF before # {} /\ after # {}
        THEN LET t1 == SetMax(before)
                 t2 == SetMin(after)
                 p1 == points[t1].value
                 p2 == points[t2].value
             IN /\ row.is_interpolated
                \* value = p1 + ((p2 - p1) / (t2 - t1)) * (T - t1), over t2 - t1
                /\ row.analog_point
                      = Some(IF p1 = NaN \/ p2 = NaN THEN RatNaN
                             ELSE Rat(p1 * (t2 - t1) + (p2 - p1) * (T - t1), t2 - t1))
        ELSE row.analog_point = None

\* C5: with no analog key in [T-1, T+1], the lookup interpolates linearly between
\* the greatest key below T and the least key above T, and is None when a side
\* is missing.
C5_Interpolation == [][PanelRows(C5_Row)]_vars

\* An interpolated value that is no stored value: a proper fraction.
C5_Witness ==
    /\ y1 \in DOMAIN frame.panel
    /\ frame.panel[y1].is_interpolated
    /\ IsSome(frame.panel[y1].analog_point)
    /\ Unwrap(frame.panel[y1].analog_point).den # 1

C6_Row(s, T, row) ==
    LET transitions == s.discrete_points.transitions
        prior == {k \in DOMAIN transitions : k <= T}
    IN IF prior = {}
       THEN row.discrete_point = None
       ELSE row.discrete_point = Some(<<SetMax(prior), transitions[SetMax(prior)]>>)

\* C6: the discrete lookup returns the transition of the greatest key <= T, and
\* None when T precedes every key, also when an init transition is set.
C6_Discrete == [][PanelRows(C6_Row)]_vars

\* A series with an init transition and a later first transition, looked up
\* before that transition: no discrete point.
C6_Witness ==
    /\ y1 \in DOMAIN frame.panel
    /\ frame.panel[y1].discrete_point = None
    /\ HasSeries(all_series, y1)
    /\ IsSome(SeriesAt(all_series, y1).discrete_points.init)
    /\ DOMAIN SeriesAt(all_series, y1).discrete_points.transitions # {}
    /\ IsSome(frame.seek_time)
    /\ \A k \in DOMAIN SeriesAt(all_series, y1).discrete_points.transitions :
           Unwrap(frame.seek_time) < k

\* y_range is None iff the mapping is empty, else the (min, max) of its values.
YRangeExact(analog_points) ==
    LET values == {analog_points.points[k].value : k \in DOMAIN analog_points.points}
    IN IF values = {} THEN analog_points.y_range = None
       ELSE analog_points.y_range = Some(<<SetMin(values), SetMax(values)>>)

\* C7: every AnalogPoints built by the Series Builder, and every one obtained
\* from it by AnalogPoints::push, has y_range None iff it is empty and otherwise
\* the (min, max) of the values it contains.
C7_YRange ==
    \A s \in SeriesOf(all_series) :
        /\ YRangeExact(s.analog_points)
        /\ \A t \in {0, 1}, v \in {3, 7} : YRangeExact(push(s.analog_points, t, v))

PointKeys(s) == (DOMAIN s.analog_points.points) \cup (DOMAIN s.discrete_points.transitions)

\* C8: min_time and max_time of a series are the smallest and the largest key of
\* its own analog points and discrete transitions.
C8_TightBounds ==
    \A s \in SeriesOf(all_series) :
        PointKeys(s) # {} =>
            /\ s.min_time = SetMin(PointKeys(s))
            /\ s.max_time = SetMax(PointKeys(s))

\* C9: every series in all_series has an analog point or a discrete transition.
C9_NoEmptySeries == \A s \in SeriesOf(all_series) : len_series(s) > 0

\* The transitions C10 expects of an entity: one per single-valued discrete-state
\* entry whose class id resolves, Line iff the class id is the normal class id.
C10_Expected(st, e) ==
    LET entries == st[e]["DiscreteState"]
        normal  == DiscreteNormal(st[e]["DiscreteStateNormal"])
    IN {<<entries[i].time, IF Some(entries[i].data[1]) = normal THEN "Line" ELSE "Box">> :
           i \in {i \in 1..Len(entries) :
                     /\ Len(entries[i].data) = 1
                     /\ Resolvable(st, e, entries[i].data[1])}}

C10_Actual(series_map, e) ==
    IF HasSeries(series_map, e)
    THEN LET tr == SeriesAt(series_map, e).discrete_points.transitions
         IN {<<k, tr[k].kind>> : k \in DOMAIN tr}
    ELSE {}

\* C10: after a pass, the transitions of every entity are exactly its
\* single-valued discrete-state entries whose class id resolves, keyed by time,
\* tagged Line iff the class id equals the normal class id and Box otherwise.
C10_Transitions ==
    [][ExecPass => \A e \in Entities : C10_Actual(all_series', e) = C10_Expected(store, e)]_vars

\* The store once every entry of the end-to-end scenario is logged.
C11_Store ==
    [AnnotatedStore EXCEPT
        ![y1]["Scalar"] = <<[time |-> 0, data |-> <<1>>], [time |-> 100, data |-> <<2>>]>>,
        ![d1]["DiscreteState"] = <<[time |-> 0, data |-> <<0>>], [time |-> 50, data |-> <<1>>]>>,
        ![d1]["DiscreteStateNormal"] = <<[time |-> 0, data |-> <<0>>]>>]

C11_Aggregated(series_map) ==
    /\ DOMAIN series_map = {"A", "D"}
    /\ Len(series_map["A"]) = 1
    /\ series_map["A"][1].entity_path = y1
    /\ series_map["A"][1].min_time = 0
    /\ series_map["A"][1].max_time = 100
    /\ series_map["A"][1].analog_points.y_range = Some(<<1, 2>>)
    /\ Len(series_map["D"]) = 1
    /\ series_map["D"][1].entity_path = d1
    /\ 50 \in DOMAIN series_map["D"][1].discrete_points.transitions
    /\ series_map["D"][1].discrete_points.transitions[50].kind = "Box"
    /\ series_map["D"][1].discrete_points.transitions[50].label = Some("ON")

\* C11: an aggregation pass over the end-to-end scenario (two scalars on A/y1,
\* classes 0 and 1 on D/d1 with normal class 0, no initial-state stream) yields
\* domain A with one series of bounds 0..100 and y_range (1, 2) and domain D with
\* one series whose transition at 50 is a Box labelled ON; a lookup at 25 on that
\* series shows the transition of time 0, labelled OFF.
C11_EndToEnd ==
    [][/\ (ExecPass /\ store = C11_Store => C11_Aggregated(all_series'))
       /\ ((/\ UiPass
            /\ C11_Aggregated(all_series)
            /\ DOMAIN all_series["D"][1].discrete_points.transitions = {0, 50}
            /\ frame'.seek_time = Some(25))
           => (/\ d1 \in DOMAIN frame'.panel
               /\ IsSome(frame'.panel[d1].discrete_point)
               /\ Unwrap(frame'.panel[d1].discrete_point)[1] = 0
               /\ Unwrap(frame'.panel[d1].discrete_point)[2].label = Some("OFF")))]_vars

\* The scenario aggregated as C11 describes, by a host that answers the query of
\* the never-logged initial-state stream with an empty result.
C11_DenseHost ==
    /\ store = C11_Store
    /\ C11_Aggregated(all_series)
    /\ frame.seek_time = Some(25)
    /\ d1 \in DOMAIN frame.panel
    /\ frame.panel[d1].discrete_point # None

\* The markers of one value-bag: one per class id the resolver knows, in bag order.
RECURSIVE C12_BagMarkers(_, _, _, _)
C12_BagMarkers(st, e, data, j) ==
    IF j > Len(data) THEN << >>
    ELSE (IF Resolvable(st, e, data[j])
          THEN << [entity_path |-> e,
                   label       |-> AnnotationTable[data[j]].label,
                   color       |-> IF AnnotationTable[data[j]].color = None
                                   THEN <<"auto", data[j]>>
                                   ELSE AnnotationTable[data[j]].color[1]] >>
          ELSE << >>)
         \o C12_BagMarkers(st, e, data, j + 1)

\* The markers of one entity at time t, entry after entry.
RECURSIVE C12_EntityMarkers(_, _, _, _, _)
C12_EntityMarkers(st, e, entries, i, t) ==
    IF i > Len(entries) THEN << >>
    ELSE (IF entries[i].time = t THEN C12_BagMarkers(st, e, entries[i].data, 1) ELSE << >>)
         \o C12_EntityMarkers(st, e, entries, i + 1, t)

\* The markers of every entity at time t, in the order the entities are visited.
RECURSIVE C12_MarkersAt(_, _, _)
C12_MarkersAt(st, k, t) ==
    IF k > Len(VisibleEntities) THEN << >>
    ELSE C12_EntityMarkers(st, VisibleEntities[k], st[VisibleEntities[k]]["Event"], 1, t)
         \o C12_MarkersAt(st, k + 1, t)

C12_EventTimes(st) ==
    {st[e]["Event"][i].time : <<e, i>> \in {<<e, i>> \in Entities \X (1..MaxLog) :
                                              i <= Len(st[e]["Event"])}}

\* C12: after a pass, the markers at each time t are exactly one marker per
\* resolvable class id of the event entries logged at t, owned by the logging
\* entity, in insertion order, the markers of different entities side by side;
\* unresolvable class ids and empty bags leave no marker and no key.
C12_EventMarkers ==
    [][ExecPass =>
         /\ DOMAIN all_events' = {t \in C12_EventTimes(store) : C12_MarkersAt(store, 1, t) # << >>}
         /\ \A t \in DOMAIN all_events' : all_events'[t] = C12_MarkersAt(store, 1, t)]_vars

\* Two entities fired at time 0, one of them with a two-class bag, and an
\* unresolvable class id was logged as well: three markers stand at key 0.
C12_Witness ==
    /\ 0 \in DOMAIN all_events
    /\ Len(all_events[0]) = 3
    /\ all_events[0][1].entity_path = y1
    /\ all_events[0][2].entity_path = y1
    /\ all_events[0][3].entity_path = d1
    /\ \E i \in 1..Len(store[y1]["Event"]) : store[y1]["Event"][i].data = <<2>>

\* C13: execute returns success when load_points succeeded or failed with
\* PrimaryNotFound, and an error for every other error of load_points.
C13_Execute ==
    exec_result # NoExec =>
        /\ exec_result.load \in {"Ok", "PrimaryNotFound"} => exec_result.ret = "Ok"
        /\ exec_result.load \notin {"Ok", "PrimaryNotFound"} => exec_result.ret = "Err"

\* A pass whose load_points failed with PrimaryNotFound returned success.
C13_Witness ==
    /\ exec_result.load = "PrimaryNotFound"
    /\ exec_result.ret = "Ok"

\* C14: a pass that aborts with an error leaves all_series and all_events as the
\* previous successful pass left them.
C14_AbortKeepsState ==
    [][ExecPass /\ exec_result.load = "Ok" /\ exec_result'.ret = "Err"
          => all_series' = all_series /\ all_events' = all_events]_vars

\* A system that never ran a pass.
C15_Fresh == [all_series |-> EmptyMap, all_events |-> EmptyMap]

\* C15: what a pass leaves in the system is what the same pass leaves in a system
\* that never ran one: running it again on the same input changes nothing, and
\* nothing of an earlier pass is carried over.
C15_Idempotent ==
    [][ExecPass =>
         \E dense \in BOOLEAN :
             /\ all_series' = load_points(C15_Fresh, store, NoFault, dense).all_series
             /\ all_events' = load_points(C15_Fresh, store, NoFault, dense).all_events]_vars

\* A pass has just aggregated series and event markers from the current input;
\* a second pass on the same input is about to run.
C15_Witness ==
    /\ exec_result.load = "Ok"
    /\ all_series # EmptyMap
    /\ all_events # EmptyMap
    /\ \E dense \in BOOLEAN :
           /\ all_series = load_points(C15_Fresh, store, NoFault, dense).all_series
           /\ all_events = load_points(C15_Fresh, store, NoFault, dense).all_events

\* The series a frame displays in its i-th domain.
C16_Displayed(series_map, fr, i) ==
    {SeriesAt(series_map, fr.displayed[i].series[j]) : j \in 1..Len(fr.displayed[i].series)}

\* The numbers among the range minima / maxima of the series that have a y_range.
C16_Minima(series) ==
    {Unwrap(s.analog_points.y_range)[1] :
        s \in {s \in series : s.analog_points.y_range # None}} \ {NaN}

C16_Maxima(series) ==
    {Unwrap(s.analog_points.y_range)[2] :
        s \in {s \in series : s.analog_points.y_range # None}} \ {NaN}

\* No NaN among the value ranges of the series.
C16_AllNumbers(series) ==
    \A s \in series : s.analog_points.y_range # Some(<<NaN, NaN>>)

\* C16: in a frame that lays out its domains, the folded value bounds of each
\* domain are the least range minimum and the greatest range maximum over the
\* series of the domain that have a y_range, whatever their order; the default
\* band [-1, 1] with the "no analog content" flag is used exactly when no series
\* of the domain has a y_range.  (Stated for domains whose ranges hold numbers.)
C16_ValueBounds ==
    [][UiPass /\ frame'.bounds.tag = "Ok" =>
         \A i \in {i \in 1..Len(frame'.displayed) :
                      C16_AllNumbers(C16_Displayed(all_series, frame', i))} :
             IF \A s \in C16_Displayed(all_series, frame', i) : s.analog_points.y_range = None
             THEN /\ frame'.bounds.items[i].min_y = Rat(-1, 1)
                  /\ frame'.bounds.items[i].max_y = Rat(1, 1)
                  /\ ~frame'.bounds.items[i].any_analog_points
             ELSE /\ frame'.bounds.items[i].any_analog_points
                  /\ frame'.bounds.items[i].fold_min
                         = Some(SetMin(C16_Minima(C16_Displayed(all_series, frame', i))))
                  /\ frame'.bounds.items[i].fold_max
                         = Some(SetMax(C16_Maxima(C16_Displayed(all_series, frame', i))))]_vars

\* Samples of the series that pass the selected-mode filter, plus event timestamps.
C17_VisibleCount(series_map, event_markers, mode) ==
    LET shown == {s \in SeriesOf(series_map) : filter_path(mode, s.entity_path)}
        paths == {s.entity_path : s \in shown}
        RECURSIVE Sum(_)
        Sum(P) == IF P = {} THEN 0
                  ELSE LET q == CHOOSE q \in P : TRUE
                       IN len_series(SeriesAt(series_map, q)) + Sum(P \ {q})
    IN Sum(paths) + Cardinality(DOMAIN event_markers)

C17_BoundsSet(fr) ==
    \A i \in 1..Len(fr.bounds.items) : fr.bounds.items[i].new_plot_bounds # None

C17_BoundsKept(fr) ==
    \A i \in 1..Len(fr.bounds.items) : fr.bounds.items[i].new_plot_bounds = None

C17_Padded(fr) ==
    \A i \in 1..Len(fr.bounds.items) :
        fr.bounds.items[i].new_plot_bounds # None =>
            LET item == fr.bounds.items[i]
                span == RatSub(item.max_y, item.min_y)
            IN Unwrap(item.new_plot_bounds)
                   = <<RatSub(item.min_y, RatMul(span, Rat(1, 5))),
                       RatAdd(item.max_y, RatMul(span, Rat(1, 5)))>>

\* C17: in a frame that renders domains, padded bounds are set for every
\* rendered domain if the reset click fired or the visible sample count differs
\* from the recorded one, and for no domain otherwise.
C17_Recompute ==
    [][UiPass /\ frame'.bounds.tag = "Ok" =>
         /\ C17_Padded(frame')
         /\ IF \/ frame'.reset_click
               \/ C17_VisibleCount(all_series, all_events, selected_mode')
                      # last_frame_sample_count
            THEN C17_BoundsSet(frame')
            ELSE C17_BoundsKept(frame')]_vars

\* The same with the count the code takes: every aggregated series, shown or
\* hidden by the selected mode, plus the event timestamps.
C17_RecomputeOnTotal ==
    [][UiPass /\ frame'.bounds.tag = "Ok" =>
         /\ C17_Padded(frame')
         /\ IF \/ frame'.reset_click
               \/ C17_VisibleCount(all_series, all_events, Unselected)
                      # last_frame_sample_count
            THEN C17_BoundsSet(frame')
            ELSE C17_BoundsKept(frame')]_vars

\* C18: a frame whose folded value bounds are invalid returns an error.
C18_InvalidBounds ==
    [][UiPass /\ frame'.bounds.tag = "Err" => frame'.ret = "Err"]_vars

\* C19: a frame keeps every index already assigned, gives the domains it sees
\* for the first time the next indices, so that the indices of the domains seen
\* so far are distinct and exactly 0..n-1 and an earlier domain precedes a later
\* one, and displays its domains in the order of their indices.
C19_FirstSeenOrder ==
    [][UiPass =>
         /\ \A d \in DOMAIN domain_index :
                d \in DOMAIN domain_index' /\ domain_index'[d] = domain_index[d]
         /\ DOMAIN domain_index' = DOMAIN domain_index \cup DOMAIN all_series
         /\ {domain_index'[d] : d \in DOMAIN domain_index'}
                = 0 .. (Cardinality(DOMAIN domain_index') - 1)
         /\ \A d, e \in DOMAIN domain_index' : d # e => domain_index'[d] # domain_index'[e]
         /\ \A d \in DOMAIN domain_index :
                \A e \in DOMAIN domain_index' \ DOMAIN domain_index :
                    domain_index'[d] < domain_index'[e]
         /\ \A i, j \in 1..Len(frame'.displayed) :
                i < j => domain_index'[frame'.displayed[i].domain]
                             < domain_index'[frame'.displayed[j].domain]]_vars

\* Domain D was seen in an earlier frame than domain A and is displayed first.
C19_Witness ==
    /\ DOMAIN domain_index = {"A", "D"}
    /\ domain_index["D"] = 0
    /\ domain_index["A"] = 1
    /\ Len(frame.displayed) = 2
    /\ frame.displayed[1].domain = "D"
    /\ frame.displayed[2].domain = "A"

\* C20: selected mode is toggled in a frame exactly when Ctrl and Enter are
\* pressed in that frame.
C20_ToggleKeys ==
    [][UiPass => (frame'.toggled <=> {"Ctrl", "Enter"} \subseteq frame'.keys)]_vars

\* The times of the entries an entity has logged, on any stream.
C21_LoggedTimes(st, e) ==
    {st[e][k][i].time : <<k, i>> \in {ki \in Kinds \X (1..MaxLog) : ki[2] <= Len(st[e][ki[1]])}}

\* C21: after every pass, each stored series has min_time <= max_time, every key
\* of its analog points and of its discrete transitions lies in
\* [min_time, max_time], and both bounds are times of entries the entity logged
\* (never the placeholders the series is created with).
C21_TimeBounds ==
    [][ExecPass =>
         \A s \in SeriesOf(all_series') :
             /\ s.min_time <= s.max_time
             /\ \A k \in PointKeys(s) : s.min_time <= k /\ k <= s.max_time
             /\ s.min_time \in C21_LoggedTimes(store, s.entity_path)
             /\ s.max_time \in C21_LoggedTimes(store, s.entity_path)]_vars

\* A stored series with points at two different times, which are its bounds.
C21_Witness ==
    \E s \in SeriesOf(all_series) :
        /\ DOMAIN s.analog_points.points = {0, 1}
        /\ s.min_time = 0
        /\ s.max_time = 1

\* What a pass has aggregated for one entity: its series and its event markers.
C22_SeriesOfEntity(series_map, e) == {s \in SeriesOf(series_map) : s.entity_path = e}

C22_MarkersOfEntity(event_markers, e) ==
    {<<t, event_markers[t][i]>> :
        <<t, i>> \in {ti \in (DOMAIN event_markers) \X (1..(2 * MaxLog)) :
                         /\ ti[2] <= Len(event_markers[ti[1]])
                         /\ event_markers[ti[1]][ti[2]].entity_path = e}}

\* C22: a pass in which a query reported "no primary data" leaves, for every
\* entity other than the one queried, the series and the event markers of a
\* pass without that report over a store in which the queried stream is empty.
C22_NoPrimaryData ==
    [][ExecPass /\ exec_result'.load = "PrimaryNotFound" =>
         \E e0 \in Entities, k \in Kinds, dense \in BOOLEAN :
             \A e \in Entities \ {e0} :
                 /\ C22_SeriesOfEntity(all_series', e)
                        = C22_SeriesOfEntity(
                              load_points(C15_Fresh, [store EXCEPT ![e0][k] = << >>],
                                          NoFault, dense).all_series, e)
                 /\ C22_MarkersOfEntity(all_events', e)
                        = C22_MarkersOfEntity(
                              load_points(C15_Fresh, [store EXCEPT ![e0][k] = << >>],
                                          NoFault, dense).all_events, e)]_vars

\* The entries of a stream whose value-bag has exactly one value.
RECURSIVE C23_WellFormed(_, _)
C23_WellFormed(entries, i) ==
    IF i > Len(entries) THEN << >>
    ELSE IF Len(entries[i].data) = 1
         THEN << entries[i] >> \o C23_WellFormed(entries, i + 1)
         ELSE C23_WellFormed(entries, i + 1)

\* The store without the malformed analog and discrete-state entries.
C23_Cleaned(st) ==
    [e \in DOMAIN st |->
        [st[e] EXCEPT !["Scalar"] = C23_WellFormed(@, 1),
                      !["DiscreteState"] = C23_WellFormed(@, 1)]]

\* The points, transitions, time bounds and analog range of the stored series.
C23_Content(series_map) ==
    {[entity_path |-> s.entity_path,
      points      |-> s.analog_points.points,
      y_range     |-> s.analog_points.y_range,
      transitions |-> s.discrete_points.transitions,
      min_time    |-> s.min_time,
      max_time    |-> s.max_time] : s \in SeriesOf(series_map)}

\* C23: a pass over a store with empty or multi-valued analog and discrete-state
\* entries succeeds, and the points, transitions, min_time / max_time and
\* y_range of its series are those of a pass over the store without them.
C23_MalformedDropped ==
    [][ExecPass =>
         /\ exec_result'.load = "Ok"
         /\ \E dense \in BOOLEAN :
                C23_Content(all_series')
                    = C23_Content(load_points(C15_Fresh, C23_Cleaned(store),
                                              NoFault, dense).all_series)]_vars

\* A pass has run over a two-valued analog entry at time 1, later than the only
\* well-formed one: the series ends at time 0 with the range of that one value.
C23_Witness ==
    /\ exec_result.load = "Ok"
    /\ \E i \in 1..Len(store[y1]["Scalar"]) :
           store[y1]["Scalar"][i] = [time |-> 1, data |-> <<3, 7>>]
    /\ HasSeries(all_series, y1)
    /\ SeriesAt(all_series, y1).max_time = 0
    /\ SeriesAt(all_series, y1).analog_points.y_range = Some(<<3, 3>>)

\* The least min_time and the greatest max_time of the series of one domain.
C24_DomainMinTime(series_map, domain) ==
    SetMin({series_map[domain][i].min_time : i \in 1..Len(series_map[domain])})

C24_DomainMaxTime(series_map, domain) ==
    SetMax({series_map[domain][i].max_time : i \in 1..Len(series_map[domain])})

\* The timeline interval of a drawn box.
C24_Interval(fr, box) == <<box.t + fr.time_offset, box.t_end + fr.time_offset>>

C24_Drawn(fr, p) == {C24_Interval(fr, fr.boxes[p][i]) : i \in 1..Len(fr.boxes[p])}

\* The end C24 gives the interval of the transition at key k: the next key of
\* the series, or the end of the time range after the last key.
C24_End(s, k, range_end) ==
    LET later == {j \in DOMAIN s.discrete_points.transitions : j > k}
    IN IF later = {} THEN range_end ELSE SetMin(later)

\* The intervals C24 expects of a series drawn over the time range
\* [range_start, range_end]: one per Box transition, and one for a Box init.
C24_Expected(s, range_start, range_end) ==
    {<<k, C24_End(s, k, range_end)>> :
        k \in {k \in DOMAIN s.discrete_points.transitions :
                  s.discrete_points.transitions[k].kind = "Box"}}
    \cup (IF IsSome(s.discrete_points.init) /\ Unwrap(s.discrete_points.init).kind = "Box"
          THEN {<<range_start, SetMin(DOMAIN s.discrete_points.transitions)>>}
          ELSE {})

\* C24: in a rendering frame, the boxes of every drawn series are one per Box
\* transition, from its timestamp to the timestamp of the next transition of the
\* series, the init transition from the min_time of the series' domain, the last
\* transition to the max_time of that domain, and every box has start <= end.
C24_BoxIntervals ==
    [][UiPass /\ ~ExecPass /\ ~frame'.no_data =>
         \A p \in DOMAIN frame'.boxes :
             /\ C24_Drawn(frame', p)
                    = C24_Expected(SeriesAt(all_series, p),
                                   C24_DomainMinTime(all_series, Unwrap(DomainOf(p))),
                                   C24_DomainMaxTime(all_series, Unwrap(DomainOf(p))))
             /\ \A i \in C24_Drawn(frame', p) : i[1] <= i[2]]_vars

\* The same with the time range of the whole view (every series of every
\* domain) in place of the domain's.
C24_BoxIntervalsOfView ==
    [][UiPass /\ ~ExecPass /\ ~frame'.no_data =>
         \A p \in DOMAIN frame'.boxes :
             /\ C24_Drawn(frame', p)
                    = C24_Expected(SeriesAt(all_series, p), ViewMinTime(all_series),
                                   ViewMaxTime(all_series))
             /\ \A i \in C24_Drawn(frame', p) : i[1] <= i[2]]_vars

\* The times of the samples an entity has on one side: the single-valued analog
\* or discrete-state entries, or the non-empty event entries.
C25_SampleTimes(st, e, kind) ==
    {st[e][kind][i].time :
        i \in {i \in 1..Len(st[e][kind]) :
                  IF kind = "Event" THEN Len(st[e][kind][i].data) # 0
                  ELSE Len(st[e][kind][i].data) = 1}}

C25_Sides == {"Scalar", "DiscreteState", "Event"}

\* The entity has samples on the given side and on no other.
C25_OnlySide(st, e, kind) ==
    /\ C25_SampleTimes(st, e, kind) # {}
    /\ \A other \in C25_Sides \ {kind} : C25_SampleTimes(st, e, other) = {}

\* C25 as stated: the series of an entity that has samples on exactly one side
\* has min_time = max_time.
C25_Original ==
    [][ExecPass =>
         \A s \in SeriesOf(all_series') :
             (\E kind \in C25_Sides : C25_OnlySide(store, s.entity_path, kind))
                 => s.min_time = s.max_time]_vars

\* The host reports the initial-state and the normal-state stream of the entity
\* in this pass, so that the pass reads its discrete states.
C25_DiscreteRead(st, e, dense) ==
    \A k \in {"DiscreteStateInit", "DiscreteStateNormal"} :
        get_required_component_dense(st, e, k, NoFault, dense).tag = "Ok"

\* The entity has a series that spans the sample times of the side.
C25_Spans(series_map, st, e, kind) ==
    /\ HasSeries(series_map, e)
    /\ SeriesAt(series_map, e).min_time = SetMin(C25_SampleTimes(st, e, kind))
    /\ SeriesAt(series_map, e).max_time = SetMax(C25_SampleTimes(st, e, kind))

C25_Entity(series_map, st, e, kind, dense) ==
    IF kind = "DiscreteState" /\ ~C25_DiscreteRead(st, e, dense)
    THEN ~HasSeries(series_map, e)
    ELSE C25_Spans(series_map, st, e, kind)

\* C25, amended: after a pass, every entity that has samples on exactly one side
\* has a series, with the earliest time of those samples as min_time and the
\* latest as max_time, so that the two are equal only when all of them are at
\* one time; except that an entity whose only samples are discrete states has
\* no series at all when the host does not report its initial-state and
\* normal-state streams in that pass.
C25_OneSided ==
    [][ExecPass =>
         \E dense \in BOOLEAN :
             /\ all_series' = load_points([all_series |-> all_series,
                                           all_events |-> all_events],
                                          store, NoFault, dense).all_series
             /\ \A e \in Entities, kind \in C25_Sides :
                    C25_OnlySide(store, e, kind)
                        => C25_Entity(all_series', store, e, kind, dense)]_vars

\* A pass has built the series of an entity whose only samples are analog, at
\* the times 0 and 1.
C25_Witness ==
    /\ C25_OnlySide(store, y1, "Scalar")
    /\ C25_SampleTimes(store, y1, "Scalar") = {0, 1}
    /\ HasSeries(all_series, y1)
    /\ SeriesAt(all_series, y1).min_time = 0
    /\ SeriesAt(all_series, y1).max_time = 1

\* The values among the analog ranges of a set of series.
C26_RangeValues(series) == C16_Minima(series) \cup C16_Maxima(series)

\* What C26 expects of the bounds of a domain whose combined range is {v}.
C26_Expected(item, v, reset_click) ==
    /\ item.min_y = Rat(2 * v - 1, 2)
    /\ item.max_y = Rat(2 * v + 1, 2)
    /\ reset_click =>
           item.new_plot_bounds = Some(<<Rat(10 * v - 7, 10), Rat(10 * v + 7, 10)>>)

\* C26: in a frame that lays out its domains, a domain whose series' analog
\* ranges hold the single value v, in one series or in several, has the value
\* bounds (v - 0.5, v + 0.5) before padding ((2.5, 3.5) for v = 3) and, when the
\* reset fired, the plotted bounds (v - 0.7, v + 0.7) ((2.3, 3.7) for v = 3).
C26_SingleValue ==
    [][UiPass /\ ~ExecPass /\ frame'.bounds.tag = "Ok" =>
         \A i \in {i \in 1..Len(frame'.displayed) :
                      C16_AllNumbers(C16_Displayed(all_series, frame', i))} :
             \A v \in C26_RangeValues(C16_Displayed(all_series, frame', i)) :
                 C26_RangeValues(C16_Displayed(all_series, frame', i)) = {v}
                     => C26_Expected(frame'.bounds.items[i], v, frame'.reset_click)]_vars

\* The same for the domains in which every displayed series has an analog range.
C26_SingleValueAllRanged ==
    [][UiPass /\ ~ExecPass /\ frame'.bounds.tag = "Ok" =>
         \A i \in {i \in 1..Len(frame'.displayed) :
                      /\ C16_AllNumbers(C16_Displayed(all_series, frame', i))
                      /\ \A s \in C16_Displayed(all_series, frame', i) :
                             s.analog_points.y_range # None} :
             \A v \in C26_RangeValues(C16_Displayed(all_series, frame', i)) :
                 C26_RangeValues(C16_Displayed(all_series, frame', i)) = {v}
                     => C26_Expected(frame'.bounds.items[i], v, frame'.reset_click)]_vars

C27_Row(s, T, row) ==
    T \in DOMAIN s.analog_points.points =>
        /\ row.analog_point = Some(Rat(s.analog_points.points[T].value, 1))
        /\ ~row.is_interpolated

\* C27: when the analog mapping of a series has a point whose key is exactly the
\* seek time, the lookup returns the value of that point, not interpolated.
C27_ExactKey == [][PanelRows(C27_Row)]_vars

\* C28: at the end of every ui pass that returns success, a pass that ends with
\* "No data available" included, last_frame_sample_count is the sample count
\* computed in that pass.
C28_CountRecorded ==
    [][UiPass /\ ~ExecPass /\ frame'.ret = "Ok" =>
         last_frame_sample_count' = current_sample_count(all_series, all_events)]_vars

\* The same for the passes that render a domain.
C28_CountRecordedOnRender ==
    [][UiPass /\ ~ExecPass /\ frame'.ret = "Ok" /\ ~frame'.no_data =>
         last_frame_sample_count' = current_sample_count(all_series, all_events)]_vars

\* The domains a frame rendered.
C29_Rendered(fr) == {fr.displayed[i].domain : i \in 1..Len(fr.displayed)}

\* C29: when a frame renders a domain that the frame before it, itself a
\* rendering frame or none at all, did not render, the frame computes plot
\* bounds for that domain.
C29_NewDomainBounds ==
    [][UiPass /\ ~ExecPass /\ ~frame'.no_data /\ ~frame.no_data /\ frame'.bounds.tag = "Ok" =>
         \A i \in 1..Len(frame'.displayed) :
             frame'.displayed[i].domain \notin C29_Rendered(frame)
                 => frame'.bounds.items[i].new_plot_bounds # None]_vars

\* The part of C29 about the first frame that renders any domain.
C29_FirstRenderBounds ==
    [][UiPass /\ ~ExecPass /\ ~frame'.no_data /\ frame = NoFrame /\ frame'.bounds.tag = "Ok" =>
         \A i \in 1..Len(frame'.displayed) :
             frame'.bounds.items[i].new_plot_bounds # None]_vars

\* C30: the selection state is Unselected or Selected(S) with S non-empty in
\* every state reached from the default state by toggles with any path sets.
C30_NoEmptySelected ==
    \/ selected_mode = Unselected
    \/ /\ selected_mode.tag = "Selected"
       /\ selected_mode.paths # {}

\* A frame has just toggled with the empty path set and the state is Unselected.
C30_Witness ==
    /\ frame.toggled
    /\ frame.selection = {}
    /\ selected_mode = Unselected

====
